---- MODULE Spec2Model ----
(***************************************************************************)
(* A model of Simple Router (src/router.js): the route matcher, the        *)
(* navigation controller and the DOM patcher.                              *)
(*                                                                         *)
(* Strings that the code inspects character by character (route paths,     *)
(* regular-expression sources, URL paths) are sequences of one-character   *)
(* strings.  The backslash character is written "\\".                      *)
(*                                                                         *)
(* Eight specifications share the variables:                               *)
(*   SpecMatch  route() followed by _matchRoute() on bounded patterns;     *)
(*   SpecTable  _matchRoute() on entries pushed onto the routes array,     *)
(*              with paths whose captures hold percent signs;              *)
(*   SpecPatch  _patch() and _runScripts() on bounded markups;             *)
(*   Spec       init(), navigate(), _onPopState() and the history, with    *)
(*              every await of navigate() a separate step;                 *)
(*   SpecUser   navigate() with the hover prefetch of _bindPrefetch and    *)
(*              the form submissions of _bindForms;                        *)
(*   SpecRace   navigate() calls that overlap;                             *)
(*   SpecLive   navigate() where every awaited call returns and a          *)
(*              beforeEach hook may restart the call time and again;       *)
(*   SpecClick  the click handler of _bindClicks and the navigate() calls  *)
(*              it makes.                                                  *)
(*                                                                         *)
(* Scope of the controller specification: routes and hooks are registered  *)
(* before init(); the container element exists; the markups hold no links, *)
(* so _updateActiveLinks has nothing to mark; scripts are inline.  After a *)
(* hard navigation no new gesture starts.                                  *)
(***************************************************************************)
EXTENDS Integers, Sequences, FiniteSets, TLC

(***************************************************************************)
(* Bounds of the model.                                                    *)
(***************************************************************************)
\* Segments in a route pattern handed to route().
MaxSegs == 2
\* Routes registered in the matcher specification.
MaxRoutes == 2
\* Children of the container in the markups of the patcher specification.
MaxKids == 2

(***************************************************************************)
(* Generic helpers.                                                        *)
(***************************************************************************)
RECURSIVE Flatten(_)
Flatten(ss) ==
  IF ss = <<>> THEN <<>> ELSE Head(ss) \o Flatten(Tail(ss))

SeqsUpTo(S, n) == UNION {[1..k -> S] : k \in 0..n}

Range(s) == {s[i] : i \in DOMAIN s}

SetMax(S) == CHOOSE m \in S : \A x \in S : x <= m

SetMin(S) == CHOOSE m \in S : \A x \in S : m <= x

(***************************************************************************)
(* Route matcher: _pathToRegex (src/router.js 413-425).                    *)
(***************************************************************************)
\* The characters the first replace() of _pathToRegex escapes: the class
\* [.+?^=!:${}()|\\] of line 417.
EscapedChars ==
  {".", "+", "?", "^", "=", "!", ":", "$", "{", "}", "(", ")", "|", "\\"}

\* The class [A-Za-z0-9_] of line 419.
WordChars ==
  {"a", "b", "c", "d", "e", "f", "g", "h", "i", "j", "k", "l", "m", "n", "o",
   "p", "q", "r", "s", "t", "u", "v", "w", "x", "y", "z",
   "A", "B", "C", "D", "E", "F", "G", "H", "I", "J", "K", "L", "M", "N", "O",
   "P", "Q", "R", "S", "T", "U", "V", "W", "X", "Y", "Z",
   "0", "1", "2", "3", "4", "5", "6", "7", "8", "9", "_"}

\* path.replace(/([.+?^=!:${}()|\\])/g, "\\$1"), line 417.
EscapeSpecials(path) ==
  Flatten([i \in 1..Len(path) |->
             IF path[i] \in EscapedChars THEN <<"\\", path[i]>>
                                         ELSE <<path[i]>>])

\* pattern.replace(/\\\*/g, "(.*)"), line 418: every backslash-star pair.
RECURSIVE ReplaceEscapedStar(_)
ReplaceEscapedStar(s) ==
  IF s = <<>> THEN <<>>
  ELSE IF Len(s) >= 2 /\ s[1] = "\\" /\ s[2] = "*"
       THEN <<"(", ".", "*", ")">> \o ReplaceEscapedStar(SubSeq(s, 3, Len(s)))
       ELSE <<s[1]>> \o ReplaceEscapedStar(Tail(s))

\* Length of the longest run of word characters of s starting at position p.
RECURSIVE WordRun(_, _)
WordRun(s, p) ==
  IF p <= Len(s) /\ s[p] \in WordChars THEN 1 + WordRun(s, p + 1) ELSE 0

\* pattern.replace(/:([A-Za-z0-9_]+)/g, ...), lines 419-422: the pattern with
\* every ":name" replaced by "([^/]+)", and the names in order.
RECURSIVE ReplaceParams(_)
ReplaceParams(s) ==
  IF s = <<>> THEN [pattern |-> <<>>, keys |-> <<>>]
  ELSE IF s[1] = ":" /\ WordRun(s, 2) > 0
       THEN LET n == WordRun(s, 2)
                rest == ReplaceParams(SubSeq(s, 2 + n, Len(s)))
            IN [pattern |-> <<"(", "[", "^", "/", "]", "+", ")">> \o rest.pattern,
                keys |-> <<SubSeq(s, 2, 1 + n)>> \o rest.keys]
       ELSE LET rest == ReplaceParams(Tail(s))
            IN [pattern |-> <<s[1]>> \o rest.pattern, keys |-> rest.keys]

\* The source handed to new RegExp at line 423.
RegexSource(path) ==
  <<"^">> \o ReplaceParams(ReplaceEscapedStar(EscapeSpecials(path))).pattern
          \o <<"$">>

(***************************************************************************)
(* new RegExp(source): the part of the JavaScript pattern grammar that the *)
(* sources built above can contain.  A compiled pattern is a flat sequence *)
(* of items: assertions (bol, eol), capture-group marks (open, close) and  *)
(* atoms (lit, any, notin) with a quantifier (one, star, plus, opt).       *)
(* A quantifier right after a group is not supported (reported as a        *)
(* syntax error); no source built from the patterns of this model has one. *)
(***************************************************************************)
Quantifiers == {"*", "+", "?"}

QuantOf(c) == IF c = "*" THEN "star" ELSE IF c = "+" THEN "plus" ELSE "opt"

SyntaxError == [ok |-> FALSE, items |-> <<>>]

\* Position of the first "]" of s at or after p, or 0.
RECURSIVE ClassEnd(_, _)
ClassEnd(s, p) ==
  IF p > Len(s) THEN 0
  ELSE IF s[p] = "]" THEN p ELSE ClassEnd(s, p + 1)

\* The item for the atom `a` at whose end position q-1 the scan stands,
\* with the quantifier at q if there is one; the position after it.
WithQuant(s, q, a) ==
  IF q <= Len(s) /\ s[q] \in Quantifiers
  THEN [item |-> [a EXCEPT !.q = QuantOf(s[q])], next |-> q + 1]
  ELSE [item |-> a, next |-> q]

Atom(k, c, set) == [k |-> k, c |-> c, set |-> set, q |-> "one"]

RECURSIVE ParseRegex(_, _, _, _)
ParseRegex(s, p, depth, acc) ==
  IF p > Len(s)
  THEN IF depth = 0 THEN [ok |-> TRUE, items |-> acc] ELSE SyntaxError
  ELSE LET c == s[p] IN
    CASE c = "^" -> ParseRegex(s, p + 1, depth, Append(acc, Atom("bol", "", {})))
      [] c = "$" -> ParseRegex(s, p + 1, depth, Append(acc, Atom("eol", "", {})))
      [] c = "(" -> ParseRegex(s, p + 1, depth + 1, Append(acc, Atom("open", "", {})))
      [] c = ")" ->
           IF depth = 0 THEN SyntaxError                 \* Unmatched ')'
           ELSE IF p < Len(s) /\ s[p + 1] \in Quantifiers THEN SyntaxError
           ELSE ParseRegex(s, p + 1, depth - 1, Append(acc, Atom("close", "", {})))
      [] c \in Quantifiers -> SyntaxError                \* Nothing to repeat
      [] c = "\\" ->
           IF p = Len(s) THEN SyntaxError                \* \ at end of pattern
           ELSE LET r == WithQuant(s, p + 2, Atom("lit", s[p + 1], {}))
                IN ParseRegex(s, r.next, depth, Append(acc, r.item))
      [] c = "[" ->
           LET e == ClassEnd(s, p + 1) IN
           IF e = 0 THEN SyntaxError                     \* Unterminated class
           ELSE LET neg == e > p + 1 /\ s[p + 1] = "^"
                    body == IF neg THEN SubSeq(s, p + 2, e - 1)
                                   ELSE SubSeq(s, p + 1, e - 1)
                    r == WithQuant(s, e + 1,
                           Atom(IF neg THEN "notin" ELSE "in", "", Range(body)))
                IN ParseRegex(s, r.next, depth, Append(acc, r.item))
      [] c = "." ->
           LET r == WithQuant(s, p + 1, Atom("any", "", {}))
           IN ParseRegex(s, r.next, depth, Append(acc, r.item))
      [] OTHER ->
           LET r == WithQuant(s, p + 1, Atom("lit", c, {}))
           IN ParseRegex(s, r.next, depth, Append(acc, r.item))

NewRegExp(source) == ParseRegex(source, 1, 0, <<>>)

\* _pathToRegex: {regex, keys}, or the SyntaxError new RegExp throws.
PathToRegex(path) ==
  LET rp == ReplaceParams(ReplaceEscapedStar(EscapeSpecials(path)))
      re == NewRegExp(<<"^">> \o rp.pattern \o <<"$">>)
  IN [ok |-> re.ok, regex |-> re.items, keys |-> rp.keys]

(***************************************************************************)
(* String.prototype.match with a compiled pattern: greedy, backtracking.   *)
(***************************************************************************)
NoMatch == [ok |-> FALSE, caps |-> <<>>]

AtomMatches(a, ch) ==
  CASE a.k = "lit" -> ch = a.c
    [] a.k = "any" -> TRUE
    [] a.k = "notin" -> ch \notin a.set
    [] a.k = "in" -> ch \in a.set
    [] OTHER -> FALSE

\* Length of the longest run of characters of s from p that atom a matches.
RECURSIVE AtomRun(_, _, _)
AtomRun(a, s, p) ==
  IF p <= Len(s) /\ AtomMatches(a, s[p]) THEN 1 + AtomRun(a, s, p + 1) ELSE 0

RECURSIVE MatchItems(_, _, _, _, _, _)
MatchItems(items, i, s, p, start, caps) ==
  IF i > Len(items) THEN [ok |-> TRUE, caps |-> caps]
  ELSE LET a == items[i] IN
    CASE a.k = "bol" ->
           IF p = 1 THEN MatchItems(items, i + 1, s, p, start, caps) ELSE NoMatch
      [] a.k = "eol" ->
           IF p = Len(s) + 1 THEN MatchItems(items, i + 1, s, p, start, caps)
           ELSE NoMatch
      [] a.k = "open" -> MatchItems(items, i + 1, s, p, p, caps)
      [] a.k = "close" ->
           MatchItems(items, i + 1, s, p, start,
                      Append(caps, SubSeq(s, start, p - 1)))
      [] OTHER ->
           LET run == AtomRun(a, s, p)
               lo == IF a.q \in {"one", "plus"} THEN 1 ELSE 0
               hi == IF a.q \in {"one", "opt"} THEN (IF run > 0 THEN 1 ELSE 0)
                     ELSE run
               good == {n \in lo..hi :
                          MatchItems(items, i + 1, s, p + n, start, caps).ok}
           IN IF good = {} THEN NoMatch
              ELSE MatchItems(items, i + 1, s, p + SetMax(good), start, caps)

\* pathname.match(r.regex), line 432.
RegexMatch(regex, s) == MatchItems(regex, 1, s, 1, 1, <<>>)

(***************************************************************************)
(* URLs.  An absolute URL of the page's origin is its path and its search  *)
(* part, the latter already split into key/value pairs.                    *)
(***************************************************************************)
Url(path, search) == [path |-> path, search |-> search]

\* _parseQuery (448-453): a mapping; of a repeated key the last value stays.
RECURSIVE ParseQuery(_)
ParseQuery(search) ==
  IF search = <<>> THEN <<>>
  ELSE LET last == search[Len(search)]
           rest == ParseQuery(SubSeq(search, 1, Len(search) - 1))
       IN IF \E i \in DOMAIN rest : rest[i][1] = last[1]
          THEN [i \in DOMAIN rest |->
                  IF rest[i][1] = last[1] THEN last ELSE rest[i]]
          ELSE Append(rest, last)

HexDigits ==
  {"0", "1", "2", "3", "4", "5", "6", "7", "8", "9",
   "a", "b", "c", "d", "e", "f", "A", "B", "C", "D", "E", "F"}

\* The escape sequences the model's URLs use, with the character each is for.
PercentDecoded(h1, h2) ==
  CASE h1 = "2" /\ h2 \in {"F", "f"} -> "/"
    [] h1 = "6" /\ h2 = "1" -> "a"
    [] h1 = "6" /\ h2 = "2" -> "b"
    [] OTHER -> "?"

\* decodeURIComponent (436): the decoded text, or the URIError it throws on a
\* '%' that two hexadecimal digits do not follow.
RECURSIVE DecodeURIComponent(_)
DecodeURIComponent(s) ==
  IF s = <<>> THEN [ok |-> TRUE, val |-> <<>>]
  ELSE IF s[1] # "%"
       THEN LET r == DecodeURIComponent(Tail(s))
            IN [ok |-> r.ok, val |-> <<s[1]>> \o r.val]
       ELSE IF Len(s) >= 3 /\ s[2] \in HexDigits /\ s[3] \in HexDigits
            THEN LET r == DecodeURIComponent(SubSeq(s, 4, Len(s)))
                 IN [ok |-> r.ok, val |-> <<PercentDecoded(s[2], s[3])>> \o r.val]
            ELSE [ok |-> FALSE, val |-> <<>>]

(***************************************************************************)
(* _matchRoute (427-446).                                                  *)
(***************************************************************************)
NoRoute ==
  [matched |-> FALSE, idx |-> 0, params |-> <<>>, query |-> <<>>,
   pathname |-> <<>>]

\* A variant of FirstMatchIndex: the scan keeps going and the last route
\* whose regex matches stays.
RECURSIVE LastMatchIndex(_, _, _)
LastMatchIndex(rs, i, pathname) ==
  IF i > Len(rs) THEN 0
  ELSE LET later == LastMatchIndex(rs, i + 1, pathname)
       IN IF later # 0 THEN later
          ELSE IF RegexMatch(rs[i].regex, pathname).ok THEN i ELSE 0

\* for (const r of this.routes) { const m = pathname.match(r.regex); if (m) }
\* (431-433): from route i on, the index of the first route whose regex
\* matches, or 0 when the loop runs out.
RECURSIVE FirstMatchIndex(_, _, _)
FirstMatchIndex(rs, i, pathname) ==
  IF i > Len(rs) THEN 0
  ELSE IF RegexMatch(rs[i].regex, pathname).ok THEN i
       ELSE FirstMatchIndex(rs, i + 1, pathname)

\* m[i + 1] || "" (436).
Capture(caps, j) == IF j <= Len(caps) THEN caps[j] ELSE <<>>

\* The params object built at 434-437: for each key, the decoded capture of
\* the last position that carries it.
ParamsOf(keys, caps) ==
  [k \in Range(keys) |->
     DecodeURIComponent(
       Capture(caps, SetMax({j \in DOMAIN keys : keys[j] = k}))).val]

MatchRoute(rs, url) ==
  LET i == FirstMatchIndex(rs, 1, url.path) IN
  IF i = 0 THEN NoRoute
  ELSE LET caps == RegexMatch(rs[i].regex, url.path).caps
           keys == rs[i].keys
       IN IF \E j \in DOMAIN keys : ~DecodeURIComponent(Capture(caps, j)).ok
          THEN NoRoute      \* URIError, caught at 443
          ELSE [matched |-> TRUE, idx |-> i, params |-> ParamsOf(keys, caps),
                query |-> ParseQuery(url.search), pathname |-> url.path]

(***************************************************************************)
(* Route patterns of the model: a sequence of segments, each a literal, a  *)
(* named parameter or the wildcard.                                        *)
(***************************************************************************)
Lit(v) == [k |-> "lit", v |-> v]
Param(v) == [k |-> "param", v |-> v]
Wild == [k |-> "wild", v |-> <<>>]

Segments == {Lit(<<"a">>), Param(<<"x">>), Param(<<"y">>), Wild}

\* At most one wildcard, parameter names distinct.
WellFormed(segs) ==
  /\ Cardinality({i \in DOMAIN segs : segs[i].k = "wild"}) <= 1
  /\ \A i, j \in DOMAIN segs :
       segs[i].k = "param" /\ segs[j].k = "param" /\ segs[i].v = segs[j].v
       => i = j

Patterns == {segs \in SeqsUpTo(Segments, MaxSegs) : WellFormed(segs)}

SegText(seg) ==
  CASE seg.k = "lit" -> seg.v
    [] seg.k = "param" -> <<":">> \o seg.v
    [] OTHER -> <<"*">>

\* The path string of a pattern: "/" for no segment, else "/s1/s2...".
PathOf(segs) ==
  IF segs = <<>> THEN <<"/">>
  ELSE Flatten([i \in DOMAIN segs |-> <<"/">> \o SegText(segs[i])])

\* Tokens substituted for parameters (slash-free) and for the wildcard.
ParamTokens == {<<"b">>, <<"c">>}
WildTokens == {<<>>, <<"b">>, <<"b", "/", "c">>}

TokensFor(segs) ==
  {t \in [DOMAIN segs -> ParamTokens \cup WildTokens] :
     \A i \in DOMAIN segs :
       CASE segs[i].k = "lit" -> t[i] = <<>>
         [] segs[i].k = "param" -> t[i] \in ParamTokens
         [] OTHER -> t[i] \in WildTokens}

\* The URL path generated from a pattern by substituting the tokens.
Substitute(segs, toks) ==
  IF segs = <<>> THEN <<"/">>
  ELSE Flatten([i \in DOMAIN segs |->
                  <<"/">> \o (IF segs[i].k = "lit" THEN segs[i].v ELSE toks[i])])

NoOptions == [loader |-> FALSE, render |-> FALSE, template |-> <<>>]

(***************************************************************************)
(* The render surface.  A node is a record: an element (tag, attributes,   *)
(* children) or a text node (text).  `id` is the node's identity; `value`  *)
(* is the editable state of a form control (value, checked or              *)
(* selectedIndex), `onload` says that the handler of lines 564/725 is      *)
(* attached and waiting, and `marked` records that the router has set      *)
(* data-router-executed on this very node at some time (history only).     *)
(* Texts are sequences so that textContent can concatenate them.           *)
(***************************************************************************)
Null == "<null>"      \* what getAttribute returns for a missing attribute

KEY == "data-router-key"
PRESERVE == "data-preserve"
EXECUTED == "data-router-executed"

AttrNames == {KEY, PRESERVE, EXECUTED, "src", "class"}

NoAttrs == [a \in AttrNames |-> Null]

Element(tag, attrs, kids) ==
  [id |-> 0, type |-> "el", tag |-> tag, attrs |-> attrs, text |-> <<>>,
   kids |-> kids, value |-> "", onload |-> FALSE, marked |-> FALSE]

TextNode(t) ==
  [id |-> 0, type |-> "text", tag |-> "", attrs |-> NoAttrs, text |-> t,
   kids |-> <<>>, value |-> "", onload |-> FALSE, marked |-> FALSE]

\* JavaScript truthiness of an attribute value: neither null nor "".
Truthy(v) == v # Null /\ v # ""

HasAttribute(n, a) == n.type = "el" /\ n.attrs[a] # Null

\* oldNode.getAttribute && oldNode.getAttribute("data-router-key") (509-512).
KeyOf(n) == IF n.type = "el" THEN n.attrs[KEY] ELSE Null

\* node.textContent: the texts of the node's descendants, in order.
RECURSIVE TextContent(_)
TextContent(n) ==
  IF n.type = "text" THEN n.text
  ELSE Flatten([i \in DOMAIN n.kids |-> TextContent(n.kids[i])])

\* Names a node and its descendants in document order: next, next + step, ...
RECURSIVE NumberNode(_, _, _)
RECURSIVE NumberKids(_, _, _)
Named(n, id, r) ==
  [node |-> [n EXCEPT !.id = id, !.kids = r.kids], next |-> r.next]

NamedList(h, t) == [kids |-> <<h.node>> \o t.kids, next |-> t.next]

NumberRest(h, rest, step) == NamedList(h, NumberKids(rest, h.next, step))

NumberNode(n, next, step) ==
  Named(n, next, NumberKids(n.kids, next + step, step))

NumberKids(kids, next, step) ==
  IF kids = <<>> THEN [kids |-> <<>>, next |-> next]
  ELSE NumberRest(NumberNode(Head(kids), next, step), Tail(kids), step)

\* The live tree with its nodes renamed 1, 2, ... in document order.  Node
\* identities matter only from the start of one handler to its end, so every
\* handler starts from this naming, and the nodes it creates are named
\* -1, -2, ...: a node with a positive identity was there before the handler.
Canon(kids) == NumberKids(kids, 1, 1).kids

RECURSIVE NodeIds(_)
NodeIds(kids) ==
  UNION {{kids[i].id} \cup NodeIds(kids[i].kids) : i \in DOMAIN kids}

(***************************************************************************)
(* HTML text.  An HTML string of the model is the tree it parses to, with  *)
(* no node identities and no live state.                                   *)
(***************************************************************************)
\* The serialisation of adjacent text nodes parses back as one text node,
\* and an empty text node leaves no trace.
RECURSIVE MergeText(_)
MergeText(kids) ==
  IF kids = <<>> THEN <<>>
  ELSE IF kids[1].type = "text" /\ kids[1].text = <<>>
       THEN MergeText(Tail(kids))
  ELSE IF Len(kids) >= 2 /\ kids[1].type = "text" /\ kids[2].type = "text"
       THEN MergeText(<<TextNode(kids[1].text \o kids[2].text)>>
                      \o SubSeq(kids, 3, Len(kids)))
       ELSE <<kids[1]>> \o MergeText(Tail(kids))

\* container.innerHTML (326, 332): attributes and texts are serialised;
\* identities, control state and handlers are not.
RECURSIVE InnerHTML(_)
InnerHTML(kids) ==
  MergeText([i \in DOMAIN kids |->
    IF kids[i].type = "text" THEN TextNode(kids[i].text)
    ELSE Element(kids[i].tag, kids[i].attrs, InnerHTML(kids[i].kids))])

\* wrapper.innerHTML = html (500): the detached tree of the markup.
ParseHTML(html) == InnerHTML(html)

(***************************************************************************)
(* DOM primitives.  `d` threads what a handler does to the document:       *)
(* d.next is the next fresh node identity, d.muts counts the mutating DOM  *)
(* calls, d.log lists the script activations.                              *)
(***************************************************************************)
NewDom == [next |-> 0 - 1, muts |-> 0, log |-> <<>>]

Mutated(d, n) == [d EXCEPT !.muts = @ + n]

IndexOfId(kids, id) ==
  IF \E i \in DOMAIN kids : kids[i].id = id
  THEN CHOOSE i \in DOMAIN kids : kids[i].id = id
  ELSE 0

RemoveAt(kids, i) == SubSeq(kids, 1, i - 1) \o SubSeq(kids, i + 1, Len(kids))

InsertAt(kids, i, n) == SubSeq(kids, 1, i - 1) \o <<n>> \o SubSeq(kids, i, Len(kids))

\* A variant of InsertBefore: the node is appended whatever the reference.
InsertAtEnd(kids, node, refId) ==
  LET at == IndexOfId(kids, node.id)
      rest == IF at = 0 THEN kids ELSE RemoveAt(kids, at)
  IN Append(rest, node)

\* parent.insertBefore(node, ref) (650, 685): the node leaves the place it
\* has, if any, and enters before the reference child; refId = 0 is a null
\* reference, which appends.
InsertBefore(kids, node, refId) ==
  LET at == IndexOfId(kids, node.id)
      rest == IF at = 0 THEN kids ELSE RemoveAt(kids, at)
      ref == IndexOfId(rest, refId)
  IN IF refId = 0 \/ ref = 0 THEN Append(rest, node)
     ELSE InsertAt(rest, ref, node)

\* newNode.cloneNode(true) (602, 661, 692): a copy with new identities.
Cloned(r, d) == [node |-> r.node, d |-> [d EXCEPT !.next = r.next]]

CloneNode(n, d) == Cloned(NumberNode(n, d.next, 0 - 1), d)

\* _isSameNode (504-519).
IsSameNode(o, n) ==
  IF o.type # n.type THEN FALSE
  ELSE IF o.type = "text" THEN TRUE
  ELSE IF o.tag # n.tag THEN FALSE
  ELSE IF Truthy(KeyOf(o)) \/ Truthy(KeyOf(n))
       THEN Truthy(KeyOf(o)) /\ Truthy(KeyOf(n)) /\ KeyOf(o) = KeyOf(n)
       ELSE TRUE

\* _updateAttributes (521-532): the number of removeAttribute and
\* setAttribute calls, and the attributes afterwards.
AttributeWrites(o, n) ==
  Cardinality({a \in AttrNames : o.attrs[a] # Null /\ n.attrs[a] = Null})
  + Cardinality({a \in AttrNames : n.attrs[a] # Null /\ o.attrs[a] # n.attrs[a]})

UpdateAttributes(o, n) == [o EXCEPT !.attrs = n.attrs]

FormControls == {"INPUT", "TEXTAREA", "SELECT"}

\* _copyInputState (534-547), called on a clone at 609 and 699 when both
\* nodes are elements.
CopyInputState(o, clone) ==
  IF o.type = "el" /\ clone.type = "el" /\ o.tag \in FormControls
  THEN [clone EXCEPT !.value = o.value]
  ELSE clone

\* old.dataset.routerExecuted (555, 717).
IsExecuted(n) == Truthy(n.attrs[EXECUTED])

\* old.src (560, 722).
HasSrc(n) == Truthy(n.attrs["src"])

\* The script element built at 556-568 / 718-729 from `old`, and the
\* activation it stands for; `again` says that `old` once carried the
\* executed mark.
NewScript(old, d) ==
  LET code == TextContent(old)
      inline == ~HasSrc(old)
      body == IF inline /\ code # <<>>
              THEN <<[TextNode(code) EXCEPT !.id = d.next - 1]>> ELSE <<>>
      n == [id |-> d.next, type |-> "el", tag |-> "SCRIPT",
            attrs |-> IF inline THEN [old.attrs EXCEPT ![EXECUTED] = "1"]
                      ELSE old.attrs,
            text |-> <<>>, kids |-> body, value |-> "",
            onload |-> ~inline, marked |-> inline]
  IN [node |-> n,
      d |-> [next |-> d.next - 2, muts |-> d.muts + 1,
             log |-> Append(d.log,
                       [code |-> IF inline THEN code ELSE <<old.attrs["src"]>>,
                        again |-> old.marked])]]

\* The loop of _execScriptsInNode (554-570) and of _runScripts (716-731)
\* over the script elements below a parent, in document order: each one not
\* marked executed is replaced by a new script element.
RECURSIVE ExecScripts(_, _)
WithKids(n, r) == [node |-> [n EXCEPT !.kids = r.kids], d |-> r.d]

ExecList(h, t) == [kids |-> <<h.node>> \o t.kids, d |-> t.d]

ExecRest(h, rest) == ExecList(h, ExecScripts(rest, h.d))

ExecOne(c, d) ==
  IF c.type = "el" /\ c.tag = "SCRIPT"
  THEN IF IsExecuted(c) THEN [node |-> c, d |-> d]
       ELSE NewScript(c, d)
  ELSE WithKids(c, ExecScripts(c.kids, d))

ExecScripts(kids, d) ==
  IF kids = <<>> THEN [kids |-> <<>>, d |-> d]
  ELSE ExecRest(ExecOne(Head(kids), d), Tail(kids))

\* _execScriptsInNode(node) (549-571): querySelectorAll finds descendants
\* only, never the node itself.
ExecScriptsInNode(n, d) == WithKids(n, ExecScripts(n.kids, d))

\* _runScripts(container) (714-732).
RunScripts(kids, d) == ExecScripts(kids, d)

(***************************************************************************)
(* The patcher: _patchNode (573-626) and _updateChildren (628-711).        *)
(***************************************************************************)
NoNode == [TextNode(<<>>) EXCEPT !.id = 0]

\* keyedOld (633-639): for each key of an old child element, the identity
\* of the last old child that carries it.
KeyedOld(kids) ==
  [k \in {KeyOf(kids[i]) : i \in {j \in DOMAIN kids : Truthy(KeyOf(kids[j]))}} |->
     kids[SetMax({i \in DOMAIN kids : KeyOf(kids[i]) = k})].id]

\* The first j > idx with _isSameNode(childNodes[j], newChild) (675-681), or 0.
LookAhead(kids, idx, nc) ==
  LET found == {j \in (idx + 1)..Len(kids) : IsSameNode(kids[j], nc)}
  IN IF found = {} THEN 0 ELSE SetMin(found)

RECURSIVE PatchNode(_, _, _)
RECURSIVE UpdateChildren(_, _, _)
RECURSIVE ChildLoop(_, _, _, _)

\* appendChild / replaceChild of a clone, then _execScriptsInNode on it
\* (661-663, 610-612, 700-701).
Inserted(clone, d) == ExecScriptsInNode(clone, Mutated(d, 1))

\* The state of the loop after the child `was`, standing at place `at` of
\* `kids`, has been patched to r.node: a child that _patchNode replaced has
\* left the parent.
Patched(st, kids, at, was, r, idx) ==
  [kids |-> [kids EXCEPT ![at] = r.node], idx |-> idx,
   gone |-> IF r.node.id # was.id THEN st.gone \cup {was}
            ELSE st.gone \ {was},
   d |-> r.d]

\* 654-655: oldIndex advances when the child at oldIndex is `match`.
KeyedPatched(st, kids, at, match, r) ==
  Patched(st, kids, at, match, r,
          IF st.idx = at /\ r.node.id = match.id THEN st.idx + 1 ELSE st.idx)

\* 651-653: `match` moves before oldChild unless it is oldChild, and is
\* patched where it stands.
KeyedAt(st, nc, match, kids, d) ==
  KeyedPatched(st, kids, IndexOfId(kids, match.id), match,
               PatchNode(match, nc, d))

KeyedMatch(st, nc, match, oldChild) ==
  IF match.id # oldChild.id
  THEN KeyedAt(st, nc, match, InsertBefore(st.kids, match, oldChild.id),
               Mutated(st.d, 1))
  ELSE KeyedAt(st, nc, match, st.kids, st.d)

\* keyedOld.get(key) (649): the old child, in the parent or out of it.
KeyedNode(st, mid) ==
  IF IndexOfId(st.kids, mid) # 0 THEN st.kids[IndexOfId(st.kids, mid)]
  ELSE CHOOSE g \in st.gone : g.id = mid

Appended(st, x) ==
  [kids |-> Append(st.kids, x.node), idx |-> st.idx + 1, gone |-> st.gone,
   d |-> x.d]

Replaced(st, oldChild, x) ==
  [kids |-> [st.kids EXCEPT ![st.idx] = x.node], idx |-> st.idx + 1,
   gone |-> st.gone \cup {oldChild}, d |-> x.d]

AppendClone(st, c) == Appended(st, Inserted(c.node, c.d))

ReplaceByClone(st, oldChild, c) ==
  Replaced(st, oldChild, Inserted(CopyInputState(oldChild, c.node), c.d))

\* 683-689: a later old child moves before oldChild and is patched.
MovedHere(st, nc, node, kids) ==
  Patched(st, kids, IndexOfId(kids, node.id), node,
          PatchNode(node, nc, Mutated(st.d, 1)), st.idx + 1)

\* One round of newChildren.forEach (642-705).  st.kids are the live
\* children, st.idx is oldIndex (from 1), st.gone are the old children that
\* have left the parent but that keyedOld still refers to.
ChildAt(st, nc, keyed, oldChild) ==
  IF nc.type = "el" /\ Truthy(KeyOf(nc)) /\ KeyOf(nc) \in DOMAIN keyed
  THEN KeyedMatch(st, nc, KeyedNode(st, keyed[KeyOf(nc)]), oldChild)  \* 647-656
  ELSE IF oldChild.id = 0
  THEN AppendClone(st, CloneNode(nc, st.d))                          \* 659-666
  ELSE IF IsSameNode(oldChild, nc)
  THEN Patched(st, st.kids, st.idx, oldChild,                        \* 668-672
               PatchNode(oldChild, nc, st.d), st.idx + 1)
  ELSE IF LookAhead(st.kids, st.idx, nc) # 0
  THEN MovedHere(st, nc, st.kids[LookAhead(st.kids, st.idx, nc)],
                 InsertBefore(st.kids, st.kids[LookAhead(st.kids, st.idx, nc)],
                              oldChild.id))
  ELSE ReplaceByClone(st, oldChild, CloneNode(nc, st.d))             \* 691-704

\* oldParent.childNodes[oldIndex] (643): undefined past the end.
ChildStep(st, nc, keyed) ==
  ChildAt(st, nc, keyed,
          IF st.idx <= Len(st.kids) THEN st.kids[st.idx] ELSE NoNode)

ChildLoop(st, newKids, i, keyed) ==
  IF i > Len(newKids) THEN st
  ELSE ChildLoop(ChildStep(st, newKids[i], keyed), newKids, i + 1, keyed)

\* 708-710: surplus trailing children are removed.
Trimmed(st, len) ==
  IF Len(st.kids) > len
  THEN [kids |-> SubSeq(st.kids, 1, len),
        d |-> Mutated(st.d, Len(st.kids) - len)]
  ELSE [kids |-> st.kids, d |-> st.d]

\* _updateChildren(oldParent, newParent): the live children afterwards.
UpdateChildren(kids, newKids, d) ==
  Trimmed(ChildLoop([kids |-> kids, idx |-> 1, gone |-> {}, d |-> d],
                    newKids, 1, KeyedOld(kids)),
          Len(newKids))

\* 619-625: attributes, then children.
Reconciled(o, n, r) ==
  [node |-> [UpdateAttributes(o, n) EXCEPT !.kids = r.kids], d |-> r.d]

\* 598-616: a clone, with the old node's control state, replaces the node.
ReplaceNode(o, c) == Inserted(CopyInputState(o, c.node), c.d)

\* _patchNode(oldNode, newNode): the node that stands in oldNode's place
\* afterwards.  Every call site passes nodes of the same type, so that
\* newNode.hasAttribute (578) is never read on a text node.
PatchNode(o, n, d) ==
  IF o.type = "el" /\ (HasAttribute(o, PRESERVE) \/ HasAttribute(n, PRESERVE))
  THEN [node |-> o, d |-> d]                                     \* 575-581
  ELSE IF o.type = "text" /\ n.type = "text"
  THEN IF o.text # n.text                                        \* 584-591
       THEN [node |-> [o EXCEPT !.text = n.text], d |-> Mutated(d, 1)]
       ELSE [node |-> o, d |-> d]
  ELSE IF \/ ~IsSameNode(o, n)
          \/ (Truthy(KeyOf(o)) /\ Truthy(KeyOf(n)) /\ KeyOf(o) # KeyOf(n))
  THEN ReplaceNode(o, CloneNode(n, d))
  ELSE IF o.type = "el" /\ n.type = "el"
  THEN Reconciled(o, n, UpdateChildren(o.kids, n.kids,
                                       Mutated(d, AttributeWrites(o, n))))
  ELSE [node |-> o, d |-> d]

\* _patch(container, html) (498-502).
Patch(kids, html, d) == UpdateChildren(kids, ParseHTML(html), d)

(***************************************************************************)
(* State.                                                                  *)
(***************************************************************************)
VARIABLES
  routes,       \* Router.routes (20): the entries in registration order
  routeThrew,   \* whether the last route() call threw
  mGen,         \* the pattern and tokens the last matched URL was built from
  mRes,         \* what the last _matchRoute call returned
  container,    \* the children of the container element (the live tree);
                \* identities are those of the last handler's run
  lastPatch,    \* the last handler's _patch call: whether there was one, its
                \* html and the number of its mutating DOM calls
  execLog,      \* the script activations of the last handler
  phase,        \* "setup" until Router.init has run, then "run"
  hooks,        \* Router.hooks (22-26): how many hooks of each kind
  config,       \* Router.config (17): the cache option
  stateCache,   \* stateCache (14): the entry of each URL, if any
  loaderCache,  \* Router.loaderCache (21): the entry of each URL, if any
  hist,         \* the session history: the state and the URL of each entry
  cur,          \* the place of the current entry; location.href is its URL
  title,        \* document.title
  loading,      \* whether the container carries the class router-loading
  made,         \* how many navigate() calls the page and redirects made
  popped,       \* whether the last handler to run was _onPopState
  calls,        \* the navigate() calls that have not returned and those
                \* that returned since the last gesture began, each with
                \* the await it stands at and with what it has done
  tasks         \* the form submissions (195-240), the prefetches
                \* (139-164) and the click handlers (87-120) that have not
                \* ended and those that ended since the last gesture began,
                \* in the same way

matchVars == <<routes, routeThrew, mGen, mRes>>

domVars == <<container, lastPatch, execLog>>

ctlVars ==
  <<phase, hooks, config, stateCache, loaderCache, hist, cur, title, loading,
    made, popped, calls, tasks>>

vars ==
  <<routes, routeThrew, mGen, mRes, container, lastPatch, execLog, phase,
    hooks, config, stateCache, loaderCache, hist, cur, title, loading, made,
    popped, calls, tasks>>

\* The URLs of the controller specification.
Home == Url(<<"/">>, <<>>)
PageA == Url(<<"/", "a">>, <<>>)
Urls == {Home, PageA}

\* One more URL, for the calls that overlap.
PageB == Url(<<"/", "b">>, <<>>)
AllUrls == Urls \cup {PageB}

\* e.state of an entry that no pushState or replaceState of the router wrote.
NoState == [has |-> FALSE, html |-> <<>>, title |-> "", url |-> Home]

NoHooks == [beforeEach |-> 0, afterEach |-> 0, onError |-> 0]

NoEntry == [has |-> FALSE, html |-> <<>>, title |-> ""]

\* undefined, as the value of `data` (268) when nothing has set it.
Undefined == "<undefined>"

NoData == [has |-> FALSE, data |-> Undefined]

\* The controller before any of its methods has been called (14-26), in a
\* page loaded at Home.
CtlFresh ==
  /\ phase = "setup"
  /\ hooks = NoHooks
  /\ config = [cache |-> TRUE]
  /\ stateCache = [u \in AllUrls |-> NoEntry]
  /\ loaderCache = [u \in AllUrls |-> NoData]
  /\ hist = <<[state |-> NoState, url |-> Home]>>
  /\ cur = 1
  /\ title = "home"
  /\ loading = FALSE
  /\ made = 0
  /\ popped = FALSE
  /\ calls = <<>>
  /\ tasks = <<>>

NoPatch == [done |-> FALSE, html |-> <<>>, muts |-> 0]

NoGen == [segs |-> <<>>, toks |-> <<>>, url |-> <<>>, made |-> FALSE]

\* route(path, options) (57-61): a throw of _pathToRegex leaves the table
\* as it was.
Route(path, options) ==
  LET c == PathToRegex(path) IN
  /\ Len(routes) < MaxRoutes
  /\ IF c.ok
     THEN /\ routes' = Append(routes, [path |-> path, regex |-> c.regex,
                                       keys |-> c.keys, options |-> options])
          /\ routeThrew' = FALSE
     ELSE /\ routes' = routes
          /\ routeThrew' = TRUE

(***************************************************************************)
(* The matcher on its own: routes are registered, and URLs generated from  *)
(* registered patterns are matched.                                        *)
(***************************************************************************)
InitMatch ==
  /\ routes = <<>>
  /\ routeThrew = FALSE
  /\ mGen = NoGen
  /\ mRes = NoRoute
  /\ container = <<>>
  /\ lastPatch = NoPatch
  /\ execLog = <<>>
  /\ CtlFresh

RegisterRoute ==
  \E segs \in Patterns :
    /\ Route(PathOf(segs), NoOptions)
    /\ mGen' = NoGen
    /\ mRes' = NoRoute
    /\ UNCHANGED <<domVars, ctlVars>>

MatchUrl ==
  \E segs \in Patterns : \E toks \in TokensFor(segs) :
    /\ \E i \in DOMAIN routes : routes[i].path = PathOf(segs)
    /\ mGen' = [segs |-> segs, toks |-> toks, url |-> Substitute(segs, toks),
                made |-> TRUE]
    /\ mRes' = MatchRoute(routes, Url(Substitute(segs, toks), <<>>))
    /\ routeThrew' = FALSE
    /\ UNCHANGED <<routes, domVars, ctlVars>>

NextMatch == RegisterRoute \/ MatchUrl

SpecMatch == InitMatch /\ [][NextMatch]_vars

(***************************************************************************)
(* The matcher on a table that the page fills itself.  route() registers   *)
(* no pattern with a named parameter (its regular expression does not      *)
(* compile), so the entries with parameter names are entries that the page *)
(* pushes onto Router.routes (20) in the documented shape (19), with       *)
(* regular expressions it compiled itself.                                 *)
(***************************************************************************)
\* An entry {path, regex, keys, options} for a regular-expression source.
Entry(path, source, keys) ==
  [path |-> path, regex |-> NewRegExp(source).items, keys |-> keys,
   options |-> NoOptions]

\* ([^/]+), the capture of one path segment.
SegmentGroup == <<"(", "[", "^", "/", "]", "+", ")">>

\* The entries the page pushes: /a, /:x, /a/:x and /:x/:y.
TableEntries ==
  { Entry(<<"/", "a">>, <<"^", "/", "a", "$">>, <<>>),
    Entry(<<"/", ":", "x">>, <<"^", "/">> \o SegmentGroup \o <<"$">>,
          <<"x">>),
    Entry(<<"/", "a", "/", ":", "x">>,
          <<"^", "/", "a", "/">> \o SegmentGroup \o <<"$">>, <<"x">>),
    Entry(<<"/", ":", "x", "/", ":", "y">>,
          <<"^", "/">> \o SegmentGroup \o <<"/">> \o SegmentGroup \o <<"$">>,
          <<"x", "y">>) }

\* The segments of the URL paths: plain text, an escape sequence, and two
\* malformed escape sequences.
TableSegments ==
  {<<"a">>, <<"%", "6", "2">>, <<"%">>, <<"b", "%", "z">>}

\* The URL paths of one or two segments.
TablePaths ==
  {<<"/">> \o x : x \in TableSegments}
    \cup {<<"/">> \o x \o <<"/">> \o y : x \in TableSegments, y \in TableSegments}

\* Router.routes.push(entry)
InstallRoute ==
  /\ Len(routes) < MaxRoutes
  /\ \E e \in TableEntries : routes' = Append(routes, e)
  /\ routeThrew' = FALSE
  /\ mGen' = NoGen
  /\ mRes' = NoRoute
  /\ UNCHANGED <<domVars, ctlVars>>

\* this._matchRoute(fullUrl) for a URL of the page's origin with the path.
MatchPath ==
  \E path \in TablePaths :
    /\ routes # <<>>
    /\ mGen' = [segs |-> <<>>, toks |-> <<>>, url |-> path, made |-> TRUE]
    /\ mRes' = MatchRoute(routes, Url(path, <<>>))
    /\ routeThrew' = FALSE
    /\ UNCHANGED <<routes, domVars, ctlVars>>

NextTable == InstallRoute \/ MatchPath

SpecTable == InitMatch /\ [][NextTable]_vars

(***************************************************************************)
(* The patcher on its own: a server-rendered container is patched with     *)
(* markups, scripts are run, and scripts with a src finish loading.        *)
(***************************************************************************)
WithAttr(n, a, v) == [n EXCEPT !.attrs[a] = v]

Keyed(tag, k, kids) == Element(tag, [NoAttrs EXCEPT ![KEY] = k], kids)

\* The nodes the markups of the patcher specification are made of.
PatchPool ==
  { Keyed("DIV", "a", <<>>),
    Keyed("DIV", "b", <<TextNode(<<"t">>)>>),
    WithAttr(Keyed("DIV", "b", <<>>), "class", "c"),
    Keyed("P", "a", <<>>),
    TextNode(<<"t">>),
    Element("SCRIPT", NoAttrs, <<TextNode(<<"s">>)>>),
    Element("DIV", [NoAttrs EXCEPT ![PRESERVE] = ""], <<TextNode(<<"t">>)>>) }

\* The nodes of the longer markups: two keyed elements and a script.
CorePool ==
  { Keyed("DIV", "a", <<>>),
    Keyed("DIV", "b", <<TextNode(<<"t">>)>>),
    Element("SCRIPT", NoAttrs, <<TextNode(<<"s">>)>>) }

\* Every markup of one or two pool nodes, and every markup of up to MaxKids
\* core nodes.
PatchMarkups ==
  {InnerHTML(m) : m \in SeqsUpTo(CorePool, MaxKids)
                        \cup {<<x>> : x \in PatchPool}
                        \cup {<<x, y>> : x \in PatchPool, y \in PatchPool}}

InitPatch ==
  /\ routes = <<>>
  /\ routeThrew = FALSE
  /\ mGen = NoGen
  /\ mRes = NoRoute
  /\ container \in {Canon(m) : m \in PatchMarkups}
  /\ lastPatch = NoPatch
  /\ execLog = <<>>
  /\ CtlFresh

\* this._patch(container, html), as at 209, 227, 289-317, 365, 402.
DoPatch ==
  \E html \in PatchMarkups :
    LET old == Canon(container)
        r == Patch(old, html, NewDom)
    IN /\ container' = r.kids
       /\ lastPatch' = [done |-> TRUE, html |-> html, muts |-> r.d.muts]
       /\ execLog' = r.d.log
       /\ UNCHANGED <<matchVars, ctlVars>>

\* this._runScripts(container), as at 210, 228, 321, 368, 404.
DoRunScripts ==
  LET old == Canon(container)
      r == RunScripts(old, NewDom)
  IN /\ container' = r.kids
     /\ lastPatch' = NoPatch
     /\ execLog' = r.d.log
     /\ UNCHANGED <<matchVars, ctlVars>>

NextPatch == DoPatch \/ DoRunScripts

SpecPatch == InitPatch /\ [][NextPatch]_vars

(***************************************************************************)
(* The navigation controller: init (28-49), navigate (244-395) and          *)
(* _onPopState (397-410).  navigate is an async function: a call runs up   *)
(* to its next await in one step, and any other handler may run before it  *)
(* resumes.  What the hooks, the loader, the renderer and the server       *)
(* answer is chosen when the call resumes.  Routes and hooks are           *)
(* registered before init.  The container element exists (248-252).        *)
(***************************************************************************)
\* Hooks of one kind registered before init.
MaxHooks == 2
\* navigate() calls that the page and the redirects of hooks make.
MaxNav == 2
\* navigate() calls that have not returned when the page calls navigate().
MaxFlight == 1
\* Entries of the session history up to which other code pushes entries.
MaxHist == 2
\* Form submissions and prefetches that have not ended when another begins.
MaxTasks == 1
\* navigate() calls that have not returned, where calls overlap.
MaxOverlap == 2

\* The content of the container in the page the browser loaded.
InitialMarkups == {<<>>, <<TextNode(<<"t">>)>>}

\* What the server answers for a URL: the content of the container element
\* of the page, and the text of its title element.
ServerPage(u) ==
  IF u = PageA
  THEN [html |-> <<Element("SCRIPT", NoAttrs, <<TextNode(<<"s">>)>>)>>,
        title |-> "a"]
  ELSE IF u = PageB
  THEN [html |-> <<TextNode(<<"b">>)>>, title |-> "b"]
  ELSE [html |-> <<TextNode(<<"t">>)>>, title |-> ""]

\* What a loader may resolve to: a value, or a falsy one.
LoaderData == {"d", ""}

\* !data (274).
Falsy(data) == data = "" \/ data = Undefined

\* The markup the model's render functions return for their data.
RenderOf(data) == IF Falsy(data) THEN <<>> ELSE <<TextNode(<<"d">>)>>

\* The options of the route the controller specification registers.
CtlOptions ==
  { NoOptions,
    [NoOptions EXCEPT !.template = <<TextNode(<<"t">>)>>],
    [NoOptions EXCEPT !.loader = TRUE, !.render = TRUE] }

\* The document and the controller as a handler sees them when it starts.
World ==
  [container |-> Canon(container), d |-> NewDom, patch |-> NoPatch,
   title |-> title, hist |-> hist, cur |-> cur, stateCache |-> stateCache,
   loaderCache |-> loaderCache, loading |-> loading, made |-> made,
   popped |-> FALSE, calls |-> calls, tasks |-> tasks]

\* The state a handler leaves.
Commit(w) ==
  /\ container' = w.container
  /\ lastPatch' = w.patch
  /\ execLog' = w.d.log
  /\ title' = w.title
  /\ hist' = w.hist
  /\ cur' = w.cur
  /\ stateCache' = w.stateCache
  /\ loaderCache' = w.loaderCache
  /\ loading' = w.loading
  /\ made' = w.made
  /\ popped' = w.popped
  /\ calls' = w.calls
  /\ tasks' = w.tasks

\* location.href
Location(w) == w.hist[w.cur].url

Log(w, c, k, n) == [w EXCEPT !.calls[c].ev = Append(@, <<k, n>>)]

At(w, c, pc, i) == [w EXCEPT !.calls[c].pc = pc, !.calls[c].i = i]

\* The call has returned.
Done(w, c) == At(w, c, "done", 0)

AfterPatch(w, html, r) ==
  [w EXCEPT !.container = r.kids, !.d = r.d,
            !.patch = [done |-> TRUE, html |-> html, muts |-> r.d.muts]]

\* this._patch(container, html)
PatchOf(w, html) == AfterPatch(w, html, Patch(w.container, html, w.d))

PatchIn(w, c, html) == PatchOf(Log(w, c, "patch", 0), html)

AfterScripts(w, r) == [w EXCEPT !.container = r.kids, !.d = r.d]

\* this._runScripts(container)
RunScriptsIn(w) == AfterScripts(w, RunScripts(w.container, w.d))

\* document.title = t || document.title
SetTitle(w, t) == [w EXCEPT !.title = IF t # "" THEN t ELSE @]

\* A variant of CallErrorHooks: the loop stops after the first hook.
CallFirstErrorHook(w, c) ==
  IF hooks.onError = 0 THEN w ELSE Log(w, c, "error", 1)

\* _callErrorHooks (489-495): every onError hook is called; what a hook
\* throws is swallowed.
CallErrorHooks(w, c) ==
  [w EXCEPT !.calls[c].ev = @ \o [h \in 1..hooks.onError |-> <<"error", h>>]]

\* The catch of navigate (387-394): the error hooks, then a navigation of
\* the browser itself to href.
Caught(w, c) ==
  Done([Log(CallErrorHooks(w, c), c, "hard", 0) EXCEPT !.calls[c].hard = TRUE],
       c)

\* A variant of Finally: the class stays on the container.
FinallyKeeps(w) == w

\* finally (340-342), on the way out of the route pipeline.
Finally(w) == [w EXCEPT !.loading = FALSE]

\* A throw in the route pipeline (273-339) or out of it.
Thrown(w, c) ==
  IF w.calls[c].route # 0 THEN Caught(Finally(w), c) ELSE Caught(w, c)

\* history.replaceState / history.pushState (324-335, 372-383).
HistoryWrite(w, c, entry) ==
  IF w.calls[c].replace
  THEN [Log(w, c, "replace", 0) EXCEPT !.hist[w.cur] = entry]
  ELSE [Log(w, c, "push", 0) EXCEPT
          !.hist = Append(SubSeq(w.hist, 1, w.cur), entry),
          !.cur = w.cur + 1]

Snapshot(html, t, url) ==
  [state |-> [has |-> TRUE, html |-> html, title |-> t, url |-> url],
   url |-> url]

\* _runAfterHooks (479-487) up to its first await.
StartAfter(w, c) ==
  IF hooks.afterEach = 0 THEN At(w, c, "after", 0)
  ELSE At(Log(w, c, "after", 1), c, "after", 1)

\* A variant of WriteLive: the history is not written.
WriteLiveSkipped(w, c) == StartAfter(w, c)

\* 324-339: the entry holds the serialised container.
WriteLive(w, c) ==
  StartAfter(HistoryWrite(w, c, Snapshot(InnerHTML(w.container), w.title,
                                         w.calls[c].href)),
             c)

\* 321-339, after the patch of the route pipeline.
FinishRoute(w, c) == WriteLive(RunScriptsIn(w), c)

\* 364-386, the path of a URL that no route matches.
FinishPlain(w, c, cached) ==
  Done(HistoryWrite(SetTitle(RunScriptsIn(PatchIn(w, c, cached.html)),
                             cached.title),
                    c, Snapshot(cached.html, cached.title, w.calls[c].href)),
       c)

\* fetch(full, ...) (302, 350): the call waits for the response.
Fetch(w, c) == At(Log(w, c, "fetch", 0), c, "fetch", 0)

\* 283-319: render, template, or the page behind the URL.
RenderStage(w, c, options) ==
  IF options.render
  THEN At(Log(w, c, "render", 0), c, "render", 0)
  ELSE IF options.template # <<>>
  THEN FinishRoute(PatchIn(w, c, options.template), c)
  ELSE IF w.stateCache[w.calls[c].href].has
  THEN FinishRoute(
         SetTitle(PatchIn(w, c, w.stateCache[w.calls[c].href].html),
                  w.stateCache[w.calls[c].href].title), c)
  ELSE Fetch(w, c)

\* 270-281: the loader cache, then the loader.
LoadStage(w, c, options) ==
  IF Falsy(w.calls[c].data) /\ options.loader
  THEN At(Log(w, c, "loader", 0), c, "loader", 0)
  ELSE RenderStage(w, c, options)

\* 265-271: the call enters the route pipeline of route i.
EnterRoute(w, c, i) ==
  [w EXCEPT !.loading = TRUE,
            !.calls[c].route = i,
            !.calls[c].data = IF w.loaderCache[w.calls[c].href].has
                              THEN w.loaderCache[w.calls[c].href].data
                              ELSE Undefined]

\* 263-362, once the beforeEach hooks let the call go on.
Proceed(w, c, m) ==
  IF m.matched
  THEN LoadStage(EnterRoute(w, c, m.idx), c, routes[m.idx].options)
  ELSE IF w.stateCache[w.calls[c].href].has
  THEN FinishPlain(w, c, w.stateCache[w.calls[c].href])
  ELSE Fetch(w, c)

\* _runBeforeHooks (465-477) up to its first await.
StartBefore(w, c) ==
  IF hooks.beforeEach = 0 THEN At(w, c, "before", 0)
  ELSE At(Log(w, c, "before", 1), c, "before", 1)

NewCall(href, replace, via, from) ==
  [href |-> href, replace |-> replace, via |-> via, from |-> from,
   pc |-> "done", i |-> 0, route |-> 0, data |-> Undefined, hard |-> FALSE,
   ev |-> <<>>]

Called(w, href, replace, via) ==
  [w EXCEPT !.calls = Append(@, NewCall(href, replace, via, Location(w))),
            !.made = IF via = "pop" THEN @ ELSE @ + 1]

\* A variant of Entered: the call goes on whatever the location is.
EnteredAlways(w, c) == StartBefore(w, c)

\* 245-259: nothing happens when the target is the current location.
Entered(w, c) ==
  IF w.calls[c].href = Location(w) THEN w ELSE StartBefore(w, c)

\* navigate(href, {replace}) up to its first await.
NavigateIn(w, href, replace, via) ==
  Entered(Called(w, href, replace, via), Len(w.calls) + 1)

InFlight(c) == c.pc # "done"

\* A gesture begins: the calls that have returned are of no account any more,
\* nor are the submissions and prefetches that have ended.
Forget(w) ==
  [w EXCEPT !.calls = SelectSeq(@, InFlight), !.tasks = SelectSeq(@, InFlight)]

\* What stays as it is once init has run.
fixedVars == <<routes, routeThrew, mGen, mRes, phase, hooks, config>>

Init ==
  /\ routes = <<>>
  /\ routeThrew = FALSE
  /\ mGen = NoGen
  /\ mRes = NoRoute
  /\ container \in {Canon(m) : m \in InitialMarkups}
  /\ lastPatch = NoPatch
  /\ execLog = <<>>
  /\ CtlFresh

\* Router.route("/a", options)
AddRoute ==
  /\ phase = "setup"
  /\ routes = <<>>
  /\ \E options \in CtlOptions : Route(PageA.path, options)
  /\ UNCHANGED <<mGen, mRes, domVars, ctlVars>>

\* What a registration of a hook leaves as it is.
hookFrame ==
  <<routes, routeThrew, mGen, mRes, container, lastPatch, execLog, phase,
    config, stateCache, loaderCache, hist, cur, title, loading, made, popped,
    calls, tasks>>

\* Router.beforeEach(fn) (63-65)
BeforeEach ==
  /\ phase = "setup"
  /\ hooks.beforeEach < MaxHooks
  /\ hooks' = [hooks EXCEPT !.beforeEach = @ + 1]
  /\ UNCHANGED hookFrame

\* Router.afterEach(fn) (67-69)
AfterEach ==
  /\ phase = "setup"
  /\ hooks.afterEach < MaxHooks
  /\ hooks' = [hooks EXCEPT !.afterEach = @ + 1]
  /\ UNCHANGED hookFrame

\* Router.onError(fn) (71-73)
OnError ==
  /\ phase = "setup"
  /\ hooks.onError < MaxHooks
  /\ hooks' = [hooks EXCEPT !.onError = @ + 1]
  /\ UNCHANGED hookFrame

\* Router.init(opts) (28-49): the current entry gets the snapshot of the
\* container, and so does the content cache.
RouterInit ==
  /\ phase = "setup"
  /\ phase' = "run"
  /\ \E cache \in BOOLEAN : config' = [cache |-> cache]
  /\ hist' = [hist EXCEPT ![cur] =
                Snapshot(InnerHTML(container), title, hist[cur].url)]
  /\ stateCache' = [stateCache EXCEPT ![hist[cur].url] =
                      [has |-> TRUE, html |-> InnerHTML(container),
                       title |-> title]]
  /\ UNCHANGED <<matchVars, domVars, hooks, loaderCache, cur, title, loading,
                 made, popped, calls, tasks>>

\* The page is being left: a call has assigned window.location.href.
Unloading == \E c \in DOMAIN calls : calls[c].hard

\* Router.navigate(href, {replace}) called by the page.
Navigate ==
  /\ phase = "run"
  /\ ~Unloading
  /\ made < MaxNav
  /\ Len(SelectSeq(calls, InFlight)) < MaxFlight
  /\ \E href \in Urls : \E replace \in BOOLEAN :
       Commit(NavigateIn(Forget(World), href, replace, "api"))
  /\ UNCHANGED fixedVars

\* What a beforeEach hook may answer.
BeforeAnswers ==
  {[k |-> x, to |-> Home] : x \in {"true", "false", "throw"}}
    \cup {[k |-> "redirect", to |-> u] : u \in Urls}

\* 468-470 with no answer that stops the loop: the next hook, or 263.
NextBefore(w, c, m) ==
  IF w.calls[c].i < hooks.beforeEach
  THEN At(Log(w, c, "before", w.calls[c].i + 1), c, "before",
          w.calls[c].i + 1)
  ELSE Proceed(w, c, m)

\* A variant of Refused: the answer false is taken for any other answer.
RefusedGoesOn(w, c, m) == NextBefore(Log(w, c, "false", w.calls[c].i), c, m)

\* res === false (469), then before === false (260): navigate returns.
Refused(w, c, m) == Done(Log(w, c, "false", w.calls[c].i), c)

\* typeof res === "string" (470), then return this.navigate(before) (261).
Redirected(w, c, to) ==
  NavigateIn(Done(Log(w, c, "redirect", w.calls[c].i), c), to, FALSE,
             "redirect")

\* A variant of HookThrew: the error leaves _runBeforeHooks and reaches the
\* catch of navigate.
HookThrewOut(w, c) == Caught(Log(w, c, "threw", w.calls[c].i), c)

\* catch (471-474): the error hooks, and the loop answers false.
HookThrew(w, c) ==
  Done(CallErrorHooks(Log(w, c, "threw", w.calls[c].i), c), c)

BeforeAnswered(w, c, ans, m) ==
  CASE ans.k = "false" -> Refused(w, c, m)
    [] ans.k = "throw" -> HookThrew(w, c)
    [] ans.k = "redirect" -> Redirected(w, c, ans.to)
    [] OTHER -> NextBefore(w, c, m)

\* The call resumes from await fn(ctx) (468), or from an empty loop.
BeforeResume ==
  \E c \in DOMAIN calls :
    /\ calls[c].pc = "before"
    /\ \E ans \in BeforeAnswers :
         /\ calls[c].i = 0 => ans.k = "true"
         /\ ans.k = "redirect" => made < MaxNav
         /\ Commit(BeforeAnswered(World, c, ans,
                                  MatchRoute(routes, calls[c].href)))
    /\ UNCHANGED fixedVars

\* 275-280: the loader's value enters the loader cache.
Loaded(w, c, data) ==
  RenderStage([w EXCEPT !.loaderCache[w.calls[c].href] =
                          [has |-> TRUE, data |-> data],
                        !.calls[c].data = data],
              c, routes[w.calls[c].route].options)

\* The call resumes from await route.options.loader(...) (275).
LoaderResume ==
  \E c \in DOMAIN calls :
    /\ calls[c].pc = "loader"
    /\ \E ans \in LoaderData \cup {"throw"} :
         Commit(IF ans = "throw" THEN Thrown(World, c)
                ELSE Loaded(World, c, ans))
    /\ UNCHANGED fixedVars

\* 285-292
Rendered(w, c) == FinishRoute(PatchIn(w, c, RenderOf(w.calls[c].data)), c)

\* The call resumes from await route.options.render(...) (285).
RenderResume ==
  \E c \in DOMAIN calls :
    /\ calls[c].pc = "render"
    /\ \E threw \in BOOLEAN :
         Commit(IF threw THEN Thrown(World, c) ELSE Rendered(World, c))
    /\ UNCHANGED fixedVars

\* 305 / 353: a response that is not ok throws, as a failed request does.
Responded(w, c, ans) ==
  IF ans = "ok" THEN At(w, c, "text", 0)
  ELSE Thrown(Log(w, c, "fetchfail", 0), c)

\* The call resumes from await fetch(...) (302, 350).
FetchResume ==
  \E c \in DOMAIN calls :
    /\ calls[c].pc = "fetch"
    /\ \E ans \in {"ok", "notOk", "fail"} :
         Commit(Responded(World, c, ans))
    /\ UNCHANGED fixedVars

\* 306-313 / 354-359: the content and the title of the fetched page.
Extracted(w, page) ==
  [has |-> TRUE, html |-> page.html,
   title |-> IF page.title # "" THEN page.title ELSE w.title]

\* A variant of Cached: the entry is dropped whatever the cache option is.
CachedNowhere(w, c, entry) == w

\* 314-315 / 361
Cached(w, c, entry) ==
  IF config.cache THEN [w EXCEPT !.stateCache[w.calls[c].href] = entry]
  ELSE w

\* 316-317, then 321-339; or 364-386.
TextRead(w, c, entry) ==
  IF w.calls[c].route # 0
  THEN FinishRoute(SetTitle(PatchIn(Cached(w, c, entry), c, entry.html),
                            entry.title), c)
  ELSE FinishPlain(Cached(w, c, entry), c, entry)

\* The call resumes from await res.text() (306, 354).
TextResume ==
  \E c \in DOMAIN calls :
    /\ calls[c].pc = "text"
    /\ Commit(TextRead(World, c, Extracted(World, ServerPage(calls[c].href))))
    /\ UNCHANGED fixedVars

\* 480-486: the next afterEach hook, or the end of navigate's try (339-342).
NextAfter(w, c) ==
  IF w.calls[c].i < hooks.afterEach
  THEN At(Log(w, c, "after", w.calls[c].i + 1), c, "after", w.calls[c].i + 1)
  ELSE Done(Finally(w), c)

\* A variant of AfterAnswered: what an afterEach hook throws ends the call
\* as a throw in the pipeline does.
AfterAbandons(w, c, threw) ==
  IF threw THEN Thrown(Log(w, c, "threw", w.calls[c].i), c)
  ELSE NextAfter(w, c)

\* 482-485: what an afterEach hook throws goes to the error hooks.
AfterAnswered(w, c, threw) ==
  NextAfter(IF threw THEN CallErrorHooks(Log(w, c, "threw", w.calls[c].i), c)
            ELSE w, c)

\* The call resumes from await fn(info) (482), or from an empty loop.
AfterResume ==
  \E c \in DOMAIN calls :
    /\ calls[c].pc = "after"
    /\ \E threw \in BOOLEAN :
         /\ calls[c].i = 0 => ~threw
         /\ Commit(AfterAnswered(World, c, threw))
    /\ UNCHANGED fixedVars

\* 401-404
Restored(w, state) ==
  RunScriptsIn(SetTitle(PatchOf(w, state.html), state.title))

\* _onPopState(e) (397-410), e.state being the state of the current entry.
OnPopState(w) ==
  IF w.hist[w.cur].state.has /\ w.hist[w.cur].state.html # <<>>
  THEN Restored(w, w.hist[w.cur].state)
  ELSE NavigateIn(w, Location(w), TRUE, "pop")

\* The user goes back or forward to entry j: the browser makes it the
\* current entry and fires popstate.
PopState ==
  /\ phase = "run"
  /\ ~Unloading
  /\ \E j \in DOMAIN hist :
       /\ j # cur
       /\ Commit(OnPopState([Forget(World) EXCEPT !.cur = j,
                                                  !.popped = TRUE]))
  /\ UNCHANGED fixedVars

\* Other code of the page pushes an entry for PageA whose state is null,
\* as history.pushState(null, "", "/a") does.
ForeignPush ==
  /\ phase = "run"
  /\ ~Unloading
  /\ Len(hist) < MaxHist
  /\ Commit([Forget(World) EXCEPT
               !.hist = Append(SubSeq(hist, 1, cur),
                               [state |-> NoState, url |-> PageA]),
               !.cur = cur + 1])
  /\ UNCHANGED fixedVars

\* A submission or a prefetch begins: it stands at its first await, pc.
Started(w, kind, href, pc) ==
  [w EXCEPT !.tasks = Append(@, [kind |-> kind, href |-> href, pc |-> pc,
                                 ev |-> <<<<pc, 0>>>>])]

TaskLog(w, t, k, n) == [w EXCEPT !.tasks[t].ev = Append(@, <<k, n>>)]

TaskAt(w, t, pc) == [w EXCEPT !.tasks[t].pc = pc]

TaskDone(w, t) == TaskAt(w, t, "done")

\* hoverHandler (127-165) for a link to href: nothing when either cache holds
\* the URL; else the loader of the matching route, or a fetch of the page.
HoverHandler(w, href, m) ==
  IF w.stateCache[href].has \/ w.loaderCache[href].has THEN w
  ELSE IF m.matched /\ routes[m.idx].options.loader
  THEN Started(w, "hover", href, "loader")
  ELSE Started(w, "hover", href, "fetch")

\* The pointer enters a link of the page that the link selector matches;
\* init has bound the handler (32), prefetchOnHover being left at its default.
Hover ==
  /\ phase = "run"
  /\ ~Unloading
  /\ Len(SelectSeq(tasks, InFlight)) < MaxTasks
  /\ \E href \in Urls :
       Commit(HoverHandler(Forget(World), href, MatchRoute(routes, href)))
  /\ UNCHANGED fixedVars

\* 147-148: the loader's value enters the loader cache; a rejection is
\* swallowed.
PrefetchLoaded(w, t, ans) ==
  IF ans = "throw" THEN TaskDone(w, t)
  ELSE TaskDone([w EXCEPT !.loaderCache[w.tasks[t].href] =
                            [has |-> TRUE, data |-> ans]], t)

\* The loader that the hover handler started settles.
PrefetchLoaderResume ==
  \E t \in DOMAIN tasks :
    /\ tasks[t].kind = "hover"
    /\ tasks[t].pc = "loader"
    /\ \E ans \in LoaderData \cup {"throw"} :
         Commit(PrefetchLoaded(World, t, ans))
    /\ UNCHANGED fixedVars

\* 154, 164: a response that is not ok rejects, and the rejection is swallowed.
PrefetchResponded(w, t, ans) ==
  IF ans = "ok" THEN TaskAt(w, t, "text") ELSE TaskDone(w, t)

\* The fetch that the hover handler started settles.
PrefetchFetchResume ==
  \E t \in DOMAIN tasks :
    /\ tasks[t].kind = "hover"
    /\ tasks[t].pc = "fetch"
    /\ \E ans \in {"ok", "notOk", "fail"} :
         Commit(PrefetchResponded(World, t, ans))
    /\ UNCHANGED fixedVars

\* 155-163: the content and the title of the page enter the content cache,
\* whatever the cache option is.
PrefetchRead(w, t, page) ==
  TaskDone([w EXCEPT !.stateCache[w.tasks[t].href] =
                       [has |-> TRUE, html |-> page.html,
                        title |-> page.title]], t)

\* The text of the prefetched page has arrived.
PrefetchTextResume ==
  \E t \in DOMAIN tasks :
    /\ tasks[t].kind = "hover"
    /\ tasks[t].pc = "text"
    /\ Commit(PrefetchRead(World, t, ServerPage(tasks[t].href)))
    /\ UNCHANGED fixedVars

\* _callErrorHooks (489-495), called by the submit handler.
TaskErrorHooks(w, t) ==
  [w EXCEPT !.tasks[t].ev = @ \o [h \in 1..hooks.onError |-> <<"error", h>>]]

\* The catch of the submit handler (237-240): the error hooks and a warning.
SubmitCaught(w, t) == TaskDone(TaskErrorHooks(w, t), t)

\* The methods of the forms of the page.
Methods == {"GET", "POST"}

\* The submit handler (170-197) up to its first await, for a form that the
\* router intercepts: a GET form calls navigate with the action (no field
\* being filled in), any other form sends its body to the action.
SubmitHandler(w, method, action) ==
  IF method = "GET" THEN NavigateIn(w, action, FALSE, "form")
  ELSE Started(w, "submit", action, "fetch")

\* The user submits a form of the page.
Submit ==
  /\ phase = "run"
  /\ ~Unloading
  /\ \E method \in Methods : \E action \in Urls :
       /\ IF method = "GET"
          THEN /\ made < MaxNav
               /\ Len(SelectSeq(calls, InFlight)) < MaxFlight
          ELSE /\ Len(hist) < MaxHist
               /\ Len(SelectSeq(tasks, InFlight)) < MaxTasks
       /\ Commit(SubmitHandler(Forget(World), method, action))
  /\ UNCHANGED fixedVars

\* What the server may answer to the submission: nothing, or a response
\* with a status and a content type.
SubmitAnswers ==
  {[k |-> "fail", type |-> "html"]}
    \cup {[k |-> x, type |-> y] : x \in {"ok", "notOk"}, y \in {"json", "html"}}

\* 197-200, 218: res.ok is not read; the content type chooses the branch.
SubmitResponded(w, t, ans) ==
  IF ans.k = "fail" THEN SubmitCaught(TaskLog(w, t, "fetchfail", 0), t)
  ELSE TaskAt(IF ans.k = "notOk" THEN TaskLog(w, t, "notok", 0) ELSE w, t,
              IF ans.type = "json" THEN "json" ELSE "text")

\* The handler resumes from await fetch(action, ...) (197).
SubmitFetchResume ==
  \E t \in DOMAIN tasks :
    /\ tasks[t].kind = "submit"
    /\ tasks[t].pc = "fetch"
    /\ \E ans \in SubmitAnswers : Commit(SubmitResponded(World, t, ans))
    /\ UNCHANGED fixedVars

\* 200-215: the renderer of the route that matches the action, if any.
SubmitParsed(w, t, m) ==
  IF m.matched /\ routes[m.idx].options.render
  THEN TaskAt(TaskLog(w, t, "render", 0), t, "render")
  ELSE TaskDone(w, t)

\* The handler resumes from await res.json() (200).
SubmitJsonResume ==
  \E t \in DOMAIN tasks :
    /\ tasks[t].kind = "submit"
    /\ tasks[t].pc = "json"
    /\ \E threw \in BOOLEAN :
         Commit(IF threw THEN SubmitCaught(World, t)
                ELSE SubmitParsed(World, t,
                                  MatchRoute(routes, tasks[t].href)))
    /\ UNCHANGED fixedVars

\* 208-212
SubmitRendered(w, t) ==
  TaskDone(RunScriptsIn(PatchOf(TaskLog(w, t, "patch", 0), RenderOf("d"))), t)

\* The handler resumes from await match.route.options.render(...) (204).
SubmitRenderResume ==
  \E t \in DOMAIN tasks :
    /\ tasks[t].kind = "submit"
    /\ tasks[t].pc = "render"
    /\ \E threw \in BOOLEAN :
         Commit(IF threw THEN SubmitCaught(World, t)
                ELSE SubmitRendered(World, t))
    /\ UNCHANGED fixedVars

\* 230-234: an entry for the action is pushed.
SubmitPushed(w, t, entry) ==
  TaskDone([TaskLog(w, t, "push", 0) EXCEPT
              !.hist = Append(SubSeq(w.hist, 1, w.cur), entry),
              !.cur = w.cur + 1], t)

\* 219-235: the response is patched in as a page.
SubmitRead(w, t, entry) ==
  SubmitPushed(SetTitle(RunScriptsIn(PatchOf(TaskLog(w, t, "patch", 0),
                                             entry.html)),
                        entry.title),
               t, Snapshot(entry.html, entry.title, w.tasks[t].href))

\* The handler resumes from await res.text() (218).
SubmitTextResume ==
  \E t \in DOMAIN tasks :
    /\ tasks[t].kind = "submit"
    /\ tasks[t].pc = "text"
    /\ Commit(SubmitRead(World, t,
                         Extracted(World, ServerPage(tasks[t].href))))
    /\ UNCHANGED fixedVars

Next ==
  \/ AddRoute
  \/ BeforeEach
  \/ AfterEach
  \/ OnError
  \/ RouterInit
  \/ Navigate
  \/ BeforeResume
  \/ LoaderResume
  \/ RenderResume
  \/ FetchResume
  \/ TextResume
  \/ AfterResume
  \/ PopState
  \/ ForeignPush

Spec == Init /\ [][Next]_vars

(***************************************************************************)
(* The controller under the gestures of the user on the page: calls of     *)
(* navigate, hovers over links and submissions of forms, in a page that    *)
(* registers a route and error hooks and whose history nothing else        *)
(* touches.                                                                *)
(***************************************************************************)
NextUser ==
  \/ AddRoute
  \/ OnError
  \/ RouterInit
  \/ Navigate
  \/ BeforeResume
  \/ LoaderResume
  \/ RenderResume
  \/ FetchResume
  \/ TextResume
  \/ AfterResume
  \/ Hover
  \/ PrefetchLoaderResume
  \/ PrefetchFetchResume
  \/ PrefetchTextResume
  \/ Submit
  \/ SubmitFetchResume
  \/ SubmitJsonResume
  \/ SubmitRenderResume
  \/ SubmitTextResume

SpecUser == Init /\ [][NextUser]_vars

(***************************************************************************)
(* The controller under navigate() calls that overlap: the page calls      *)
(* navigate for /a, which a route may match, and for /b, which none        *)
(* matches, while an earlier call has not returned.  No hook is registered *)
(* and nothing else touches the history.                                   *)
(***************************************************************************)
\* Router.navigate(href, {replace}) called by the page, for /a or /b.
Overlap ==
  /\ phase = "run"
  /\ ~Unloading
  /\ made < MaxNav
  /\ Len(SelectSeq(calls, InFlight)) < MaxOverlap
  /\ \E href \in {PageA, PageB} : \E replace \in BOOLEAN :
       Commit(NavigateIn(Forget(World), href, replace, "api"))
  /\ UNCHANGED fixedVars

NextRace ==
  \/ AddRoute
  \/ RouterInit
  \/ Overlap
  \/ BeforeResume
  \/ LoaderResume
  \/ RenderResume
  \/ FetchResume
  \/ TextResume
  \/ AfterResume

SpecRace == Init /\ [][NextRace]_vars

(***************************************************************************)
(* The controller under fairness: the page registers a route and           *)
(* beforeEach hooks and calls navigate; every hook, loader, renderer and   *)
(* transport call that has been made returns.  A call that a hook          *)
(* redirects belongs to the navigate call of the page that began it: it is *)
(* not counted as a new one, and the call it replaces is forgotten.        *)
(***************************************************************************)
\* return this.navigate(before) (261), within the navigation that the page
\* began.
Restarted(w, c, to) ==
  [Forget(Redirected(w, c, to)) EXCEPT !.made = w.made]

\* What the answer of a beforeEach hook leads to (259-261).
BeforeOutcome(w, c, ans, m) ==
  IF ans.k = "redirect" THEN Restarted(w, c, ans.to)
  ELSE BeforeAnswered(w, c, ans, m)

\* The call resumes from await fn(ctx) (468), or from an empty loop; a hook
\* may answer a replacement URL whenever it is asked.
BeforeReturns ==
  \E c \in DOMAIN calls :
    /\ calls[c].pc = "before"
    /\ \E ans \in BeforeAnswers :
         /\ calls[c].i = 0 => ans.k = "true"
         /\ Commit(BeforeOutcome(World, c, ans,
                                 MatchRoute(routes, calls[c].href)))
    /\ UNCHANGED fixedVars

NextLive ==
  \/ AddRoute
  \/ BeforeEach
  \/ RouterInit
  \/ Navigate
  \/ BeforeReturns
  \/ LoaderResume
  \/ RenderResume
  \/ FetchResume
  \/ TextResume
  \/ AfterResume

\* A call stands at the await pc.
Waiting(pc) == \E c \in DOMAIN calls : calls[c].pc = pc

\* A call that stood at the await pc has resumed in the step.
Stepped(pc) ==
  \E c \in DOMAIN calls :
    /\ calls[c].pc = pc
    /\ \A k \in DOMAIN calls' : calls'[k] # calls[c]

\* Weak fairness of the handlers that patch the container, written out: a
\* handler that resumes a call is enabled exactly when a call stands at its
\* await, and its steps are the steps in which such a call resumes.
BeforeReturnsFair == []<>(~Waiting("before")) \/ []<><<Stepped("before")>>_vars

RenderReturnsFair == []<>(~Waiting("render")) \/ []<><<Stepped("render")>>_vars

TextReturnsFair == []<>(~Waiting("text")) \/ []<><<Stepped("text")>>_vars

\* Every awaited hook, loader, renderer and transport call returns.
Returns ==
  /\ BeforeReturnsFair
  /\ WF_vars(LoaderResume)
  /\ RenderReturnsFair
  /\ WF_vars(FetchResume)
  /\ TextReturnsFair
  /\ WF_vars(AfterResume)

SpecLive == Init /\ [][NextLive]_vars /\ Returns

(***************************************************************************)
(* The controller under clicks on the links of the page: the click handler *)
(* that init binds (30, 84-124) and the navigate calls it makes.  The page *)
(* registers a route, beforeEach hooks and error hooks; the links are      *)
(* local and the clicks are plain left clicks.                             *)
(***************************************************************************)
\* The beforeEach hook that the click handler t last invoked, or 0.
ClickHook(t) == Cardinality({p \in DOMAIN t.ev : t.ev[p][1] = "before"}) - 1

\* The click handler (87-116) up to its first await, for a link to href:
\* _runBeforeHooks(ctx) invokes the first hook, if there is one.
ClickHandler(w, href) ==
  IF hooks.beforeEach = 0 THEN Started(w, "click", href, "before")
  ELSE TaskLog(Started(w, "click", href, "before"), Len(w.tasks) + 1,
               "before", 1)

\* The user clicks a link of the page.
Click ==
  /\ phase = "run"
  /\ ~Unloading
  /\ made < MaxNav
  /\ Len(SelectSeq(calls, InFlight)) < MaxFlight
  /\ Len(SelectSeq(tasks, InFlight)) < MaxTasks
  /\ \E href \in Urls : Commit(ClickHandler(Forget(World), href))
  /\ UNCHANGED fixedVars

\* 468-470 in the handler with no answer that stops the loop: the next
\* hook, or this.navigate(href) (120).
ClickNext(w, t) ==
  IF ClickHook(w.tasks[t]) < hooks.beforeEach
  THEN TaskLog(w, t, "before", ClickHook(w.tasks[t]) + 1)
  ELSE NavigateIn(TaskDone(w, t), w.tasks[t].href, FALSE, "click")

\* What the answer of a hook leads to in the handler: false and a thrown
\* error end it (469, 471-474, 117), a string is handed to navigate (118).
ClickAnswered(w, t, ans) ==
  CASE ans.k = "false" ->
         TaskDone(TaskLog(w, t, "false", ClickHook(w.tasks[t])), t)
    [] ans.k = "throw" ->
         TaskDone(TaskErrorHooks(TaskLog(w, t, "threw",
                                         ClickHook(w.tasks[t])), t), t)
    [] ans.k = "redirect" ->
         NavigateIn(TaskDone(TaskLog(w, t, "redirect",
                                     ClickHook(w.tasks[t])), t),
                    ans.to, FALSE, "click")
    [] OTHER -> ClickNext(w, t)

\* The handler resumes from await fn(ctx) (468) within
\* await this._runBeforeHooks(ctx) (116), or from an empty loop.
ClickResume ==
  \E t \in DOMAIN tasks :
    /\ tasks[t].kind = "click"
    /\ tasks[t].pc = "before"
    /\ \E ans \in BeforeAnswers :
         /\ ClickHook(tasks[t]) = 0 => ans.k = "true"
         /\ Commit(ClickAnswered(World, t, ans))
    /\ UNCHANGED fixedVars

NextClick ==
  \/ AddRoute
  \/ BeforeEach
  \/ OnError
  \/ RouterInit
  \/ Click
  \/ ClickResume
  \/ BeforeResume
  \/ LoaderResume
  \/ RenderResume
  \/ FetchResume
  \/ TextResume
  \/ AfterResume

SpecClick == Init /\ [][NextClick]_vars

(***************************************************************************)
(* Properties of the matcher.                                              *)
(***************************************************************************)
\* The routes whose compiled pattern matches the last matched URL's path.
Hits == {i \in DOMAIN routes : RegexMatch(routes[i].regex, mGen.url).ok}

\* C8: route matching is order-dependent.  Whenever one or more registered
\* patterns match the path of the URL, _matchRoute returns a match, and it
\* is the match of the route registered first among them, whichever is the
\* more specific; when none matches it returns no match.
C8_FirstRegisteredWins ==
  mGen.made =>
    /\ Hits # {} => mRes.matched /\ mRes.idx = SetMin(Hits)
                    /\ mRes.pathname = mGen.url
    /\ Hits = {} => ~mRes.matched

\* C8's case: two routes match the URL, the first registered has a wildcard
\* and the second is the exact literal path, and the first is returned.
C8_Witness ==
  /\ mGen.made
  /\ Cardinality(Hits) >= 2
  /\ routes[1].path = <<"/", "a", "/", "*">>
  /\ routes[2].path = <<"/", "a">>
  /\ mGen.url = <<"/", "a">>
  /\ mRes.matched /\ mRes.idx = 1

\* C9: round trip of the matcher.  Registering a pattern of literal
\* segments, named parameters and at most one wildcard succeeds, and
\* matching the URL generated from the first registered pattern by
\* substituting tokens is a match of that route whose parameters are the
\* tokens substituted for them.
C9_RoundTrip ==
  /\ ~routeThrew
  /\ (mGen.made /\ routes[1].path = PathOf(mGen.segs)) =>
       /\ mRes.matched /\ mRes.idx = 1
       /\ \A i \in DOMAIN mGen.segs :
            mGen.segs[i].k = "param" =>
              /\ mGen.segs[i].v \in DOMAIN mRes.params
              /\ mRes.params[mGen.segs[i].v] = mGen.toks[i]

\* The wildcard half of C9 alone: the URL generated from the first
\* registered pattern matches it.
C9_WildcardMatches ==
  (mGen.made /\ routes[1].path = PathOf(mGen.segs)) => mRes.matched

\* The text that route i captures for its j-th key in the last matched path.
Captured(i, j) == Capture(RegexMatch(routes[i].regex, mGen.url).caps, j)

\* The value of a parameter: the decoded capture, or the capture as it
\* stands when it cannot be decoded.
DecodedOrRaw(text) ==
  IF DecodeURIComponent(text).ok THEN DecodeURIComponent(text).val ELSE text

Decodable ==
  \A j \in DOMAIN routes[SetMin(Hits)].keys :
    DecodeURIComponent(Captured(SetMin(Hits), j)).ok

\* C19 for the paths whose captures can be decoded.
DecodableParamsMatch ==
  (mGen.made /\ Hits # {} /\ Decodable) =>
    /\ mRes.matched
    /\ mRes.idx = SetMin(Hits)
    /\ \A j \in DOMAIN routes[SetMin(Hits)].keys :
         mRes.params[routes[SetMin(Hits)].keys[j]]
           = DecodeURIComponent(Captured(SetMin(Hits), j)).val

\* What the code does in C19's case: the URL is taken for unmatched.
UndecodableUnmatched ==
  (mGen.made /\ Hits # {} /\ ~Decodable) => mRes = NoRoute

(***************************************************************************)
(* Properties of the patcher.                                              *)
(***************************************************************************)
KeysOf(kids) == {KeyOf(kids[i]) : i \in {j \in DOMAIN kids : Truthy(KeyOf(kids[j]))}}

DistinctKeys(kids) ==
  \A i, j \in DOMAIN kids :
    Truthy(KeyOf(kids[i])) /\ KeyOf(kids[i]) = KeyOf(kids[j]) => i = j

WithKey(kids, k) == kids[CHOOSE i \in DOMAIN kids : KeyOf(kids[i]) = k]

\* The children of a parent before a patch and the new children are
\* siblings with distinct stable keys, and a key in both keeps its tag.
KeyedReorder(old, new) ==
  /\ DistinctKeys(old)
  /\ DistinctKeys(new)
  /\ \A k \in KeysOf(old) \cap KeysOf(new) :
       WithKey(old, k).tag = WithKey(new, k).tag

SameShape(live, new) ==
  /\ Len(live) = Len(new)
  /\ \A i \in DOMAIN new :
       /\ live[i].type = new[i].type
       /\ live[i].tag = new[i].tag
       /\ KeyOf(live[i]) = KeyOf(new[i])

\* C10: in every _patch whose old and new children are keyed siblings with
\* distinct keys and unchanged tags, each keyed element that is in both lists
\* is afterwards the same live node it was (same identity, so moved and never
\* cloned), and the live children are in the order of the new children.
C10_KeyedIdentity ==
  [][ (lastPatch'.done /\ KeyedReorder(Canon(container), lastPatch'.html)) =>
        /\ \A k \in KeysOf(Canon(container)) \cap KeysOf(lastPatch'.html) :
             \E i \in DOMAIN container' :
               /\ KeyOf(container'[i]) = k
               /\ container'[i].id = WithKey(Canon(container), k).id
        /\ SameShape(container', lastPatch'.html) ]_vars

\* C10's case: a patch has run on keyed siblings and two kept keyed nodes
\* stand in the opposite order of their old places.
C10_Witness ==
  /\ lastPatch.done
  /\ DistinctKeys(container)
  /\ \E i, j \in DOMAIN container :
       /\ i < j
       /\ Truthy(KeyOf(container[i])) /\ Truthy(KeyOf(container[j]))
       /\ 0 < container[j].id
       /\ container[j].id < container[i].id

\* The step is a _patch of the live tree with its own serialisation.
SelfPatch == lastPatch'.done /\ lastPatch'.html = InnerHTML(Canon(container))

\* The patch of the step called no mutating DOM method, activated no script,
\* and left every node where and as it was.
NoMutation ==
  /\ lastPatch'.muts = 0
  /\ execLog' = <<>>
  /\ container' = Canon(container)

\* C11: a _patch of the live tree with markup identical to its current
\* rendering performs no mutation: no attribute is set or removed, no text
\* is written, no node is inserted, moved, replaced or removed, and no script
\* is activated.
C11_IdenticalNoMutation == [][SelfPatch => NoMutation]_vars

\* C11 for the trees whose sibling keys are distinct.
IdenticalDistinctKeysNoMutation ==
  [][(SelfPatch /\ DistinctKeys(Canon(container))) => NoMutation]_vars

\* The children of the live tree that carry data-preserve.
Preserved(kids) == {i \in DOMAIN kids : HasAttribute(kids[i], PRESERVE)}

\* The node is a child of the parent, the very node with all it holds.
Survives(n, kids) == \E j \in DOMAIN kids : kids[j] = n

\* C12: an element of the live tree that carries data-preserve survives
\* every _patch untouched, whatever the new markup holds at its place and
\* however many new children there are: afterwards it is still a child of
\* its parent, the same node with the same attributes and the same subtree.
C12_PreservedSurvives ==
  [][ lastPatch'.done =>
        \A i \in Preserved(Canon(container)) :
          Survives(Canon(container)[i], container') ]_vars

\* C12 for the patches whose new children are, place by place, of the tag
\* and key of the old ones, sibling keys being distinct.
PreservedSurvivesSameShape ==
  [][ (/\ lastPatch'.done
       /\ SameShape(Canon(container), lastPatch'.html)
       /\ DistinctKeys(Canon(container))) =>
        \A i \in Preserved(Canon(container)) :
          Survives(Canon(container)[i], container') ]_vars

(***************************************************************************)
(* Properties of the controller.  A call's log lists, in order, what the   *)
(* call has done: the hooks it invoked, what they answered when that ends  *)
(* the call, the loader, renderer and transport calls, the patch and the   *)
(* history write, the error hooks and the browser's own navigation.        *)
(***************************************************************************)
\* The places of a call's log where an event of kind k stands.
Events(call, k) == {p \in DOMAIN call.ev : call.ev[p][1] = k}

Did(call, k) == Events(call, k) # {}

\* The invocations of hooks 1..n of one kind, in registration order.
Invocations(k, n) == [j \in 1..n |-> <<k, j>>]

IsErrorEvent(e) == e[1] = "error"

IsAfterEvent(e) == e[1] = "after"

\* The handler of the step has left the document and the caches as they were.
NothingTouched ==
  /\ container' = Canon(container)
  /\ ~lastPatch'.done
  /\ execLog' = <<>>
  /\ UNCHANGED <<stateCache, loaderCache, hist, cur, title, loading>>

\* C1: a navigate() call whose target is the current location returns at
\* once: the call invokes no beforeEach, afterEach or onError hook, calls no
\* loader and no transport, patches nothing, and the caches and the history
\* are as they were.
C1_SameLocationNoop ==
  [][ (made' = made + 1
       /\ calls'[Len(calls')].href = calls'[Len(calls')].from) =>
        /\ calls'[Len(calls')].pc = "done"
        /\ calls'[Len(calls')].ev = <<>>
        /\ NothingTouched ]_vars

\* C1's case: the page has called navigate() for the current location while
\* hooks of every kind are registered.
C1_Witness ==
  /\ hooks.beforeEach > 0 /\ hooks.afterEach > 0 /\ hooks.onError > 0
  /\ \E c \in DOMAIN calls :
       /\ calls[c].via = "api"
       /\ calls[c].href = calls[c].from
       /\ calls[c].pc = "done"

\* C2: when beforeEach hook i answers false, the call returns in that very
\* step having invoked the hooks 1..i and nothing else: no later hook, no
\* loader, no transport, no patch, no history write, no onError hook and no
\* navigation of the browser; and the step leaves document, caches and
\* history as they were.
C2_FalseAborts ==
  [][ \A c \in DOMAIN calls :
        (/\ calls[c].pc = "before"
         /\ c \in DOMAIN calls'
         /\ Did(calls'[c], "false")) =>
          /\ calls'[c].pc = "done"
          /\ calls'[c].ev = Invocations("before", calls[c].i)
                              \o <<<<"false", calls[c].i>>>>
          /\ ~calls'[c].hard
          /\ Len(calls') = Len(calls)
          /\ made' = made
          /\ NothingTouched ]_vars

\* C2's case: the first of two beforeEach hooks has answered false to a call
\* for a URL that a route matches, with an onError hook registered.
C2_Witness ==
  /\ hooks.beforeEach = 2
  /\ hooks.onError > 0
  /\ routes # <<>>
  /\ \E c \in DOMAIN calls :
       /\ calls[c].href = PageA
       /\ calls[c].ev = <<<<"before", 1>>, <<"false", 1>>>>

\* C3: when the transport fails in a call (the request fails or the answer
\* is not ok), the call invokes each registered onError hook once, in order,
\* then hands the target to the browser, and returns; it has invoked no
\* onError hook before, and it writes no history entry.
C3_TransportFailure ==
  \A c \in DOMAIN calls :
    Did(calls[c], "fetchfail") =>
      /\ calls[c].pc = "done"
      /\ calls[c].hard
      /\ Cardinality(Events(calls[c], "fetchfail")) = 1
      /\ SubSeq(calls[c].ev,
                SetMin(Events(calls[c], "fetchfail")) + 1, Len(calls[c].ev))
           = Invocations("error", hooks.onError) \o <<<<"hard", 0>>>>
      /\ SelectSeq(calls[c].ev, IsErrorEvent)
           = Invocations("error", hooks.onError)
      /\ ~Did(calls[c], "push")
      /\ ~Did(calls[c], "replace")

\* C3's case: the transport has failed in the pipeline of a matched route,
\* with two onError hooks registered.
C3_Witness ==
  /\ hooks.onError = 2
  /\ \E c \in DOMAIN calls :
       /\ calls[c].route # 0
       /\ Did(calls[c], "fetchfail")
       /\ calls[c].hard

\* The other case of C3: the transport has failed for a URL no route matches.
C3_WitnessNoRoute ==
  /\ hooks.onError = 2
  /\ \E c \in DOMAIN calls :
       /\ calls[c].route = 0
       /\ Did(calls[c], "fetchfail")
       /\ calls[c].hard

\* C4: no script is activated in place of a script element that once
\* carried the executed mark.
C4_ActivatedOnce == \A i \in DOMAIN execLog : ~execLog[i].again

\* C5: when the user has gone back or forward to an entry whose state holds
\* no snapshot, _onPopState has called navigate() for the URL of that entry
\* with replace, and when that call has returned it has patched the surface
\* and replaced the current entry, unless a hook stopped it or it handed the
\* URL to the browser.
C5_PopResynchronizes ==
  (popped /\ ~hist[cur].state.has) =>
    \E c \in DOMAIN calls :
      /\ calls[c].via = "pop"
      /\ calls[c].href = hist[cur].url
      /\ calls[c].replace
      /\ calls[c].pc = "done" =>
           \/ Did(calls[c], "patch") /\ Did(calls[c], "replace")
           \/ Did(calls[c], "false")
           \/ Did(calls[c], "threw")
           \/ Did(calls[c], "redirect")
           \/ calls[c].hard

\* What the code does in C5's case: the call of _onPopState does nothing.
PopNavigateDoesNothing ==
  \A c \in DOMAIN calls :
    calls[c].via = "pop" => calls[c].pc = "done" /\ calls[c].ev = <<>>

\* C6: when the user goes back or forward to an entry whose state holds a
\* snapshot, _onPopState patches the container with the snapshot's html and
\* sets the snapshot's title, and it makes no navigate() call (so that no
\* hook, loader or transport is called), writes no history entry and leaves
\* the caches as they were.
C6_SnapshotRestored ==
  [][ (popped' /\ cur' # cur /\ hist[cur'].state.has) =>
        /\ lastPatch'.done
        /\ lastPatch'.html = hist[cur'].state.html
        /\ title' = hist[cur'].state.title
        /\ calls' = SelectSeq(calls, InFlight)
        /\ UNCHANGED <<hist, made, stateCache, loaderCache>> ]_vars

\* C6 for the snapshots whose html is not the empty string.
NonEmptySnapshotRestored ==
  [][ (/\ popped' /\ cur' # cur /\ hist[cur'].state.has
       /\ hist[cur'].state.html # <<>>) =>
        /\ lastPatch'.done
        /\ lastPatch'.html = hist[cur'].state.html
        /\ title' = hist[cur'].state.title
        /\ calls' = SelectSeq(calls, InFlight)
        /\ UNCHANGED <<hist, made, stateCache, loaderCache>> ]_vars

\* The afterEach hooks that a call invoked after it wrote the history.
AfterHistory(call) ==
  SelectSeq(SubSeq(call.ev,
                   SetMin(Events(call, "push") \cup Events(call, "replace")),
                   Len(call.ev)),
            IsAfterEvent)

\* C7: a call that has returned after patching the surface and writing the
\* history has invoked, after the history write, every registered afterEach
\* hook once, in registration order.
C7_AfterEachRuns ==
  \A c \in DOMAIN calls :
    (/\ calls[c].pc = "done"
     /\ ~calls[c].hard
     /\ Did(calls[c], "patch")
     /\ Did(calls[c], "push") \/ Did(calls[c], "replace")) =>
      AfterHistory(calls[c]) = Invocations("after", hooks.afterEach)

\* C7 for the calls that a route matched.
RouteAfterEachRuns ==
  \A c \in DOMAIN calls :
    (/\ calls[c].pc = "done"
     /\ ~calls[c].hard
     /\ calls[c].route # 0
     /\ Did(calls[c], "patch")
     /\ Did(calls[c], "push") \/ Did(calls[c], "replace")) =>
      AfterHistory(calls[c]) = Invocations("after", hooks.afterEach)

\* The step is the resumption of call c from an await: no gesture began
\* and no other call changed.
Resumed(c) ==
  /\ ~popped'
  /\ made' = made
  /\ Len(calls') = Len(calls)
  /\ calls'[c] # calls[c]
  /\ \A k \in DOMAIN calls : k # c => calls'[k] = calls[k]

\* The step wrote one history entry for the URL of call c, holding html:
\* the current entry was replaced, or a new entry follows it and is current.
HistoryWrittenFor(c, html) ==
  /\ hist'[cur'].url = calls[c].href
  /\ hist'[cur'].state.has
  /\ hist'[cur'].state.html = html
  /\ IF calls[c].replace
     THEN /\ cur' = cur
          /\ Len(hist') = Len(hist)
          /\ \A k \in DOMAIN hist : k # cur => hist'[k] = hist[k]
     ELSE /\ cur' = cur + 1
          /\ Len(hist') = cur + 1
          /\ \A k \in 1..cur : hist'[k] = hist[k]

\* The call went past the beforeEach hooks in the step.
WentOn(c) ==
  /\ Resumed(c)
  /\ calls[c].pc = "before"
  /\ calls'[c].pc # "before"
  /\ ~Did(calls'[c], "false")
  /\ ~Did(calls'[c], "threw")
  /\ ~Did(calls'[c], "redirect")

\* C13: with the content cache enabled, a call for a URL that no route
\* matches and that the cache does not hold fetches the URL once; when the
\* page has arrived, the call stores its content and title in the cache
\* under the URL, patches the container with that content, writes one
\* history entry for the URL (replacing or pushing, as asked) and returns.
\* A call for an unmatched URL that the cache holds makes no fetch: it
\* patches the container with the cached content and writes the history.
C13_FallbackFetch ==
  [][ \A c \in DOMAIN calls :
        /\ (/\ Resumed(c)
            /\ calls[c].pc = "text"
            /\ calls[c].route = 0
            /\ config.cache) =>
             /\ calls'[c].pc = "done"
             /\ Cardinality(Events(calls'[c], "fetch")) = 1
             /\ stateCache'[calls[c].href] =
                  [has |-> TRUE, html |-> ServerPage(calls[c].href).html,
                   title |-> IF ServerPage(calls[c].href).title # ""
                             THEN ServerPage(calls[c].href).title ELSE title]
             /\ lastPatch'.done
             /\ lastPatch'.html = ServerPage(calls[c].href).html
             /\ HistoryWrittenFor(c, ServerPage(calls[c].href).html)
        /\ (/\ WentOn(c)
            /\ ~MatchRoute(routes, calls[c].href).matched
            /\ stateCache[calls[c].href].has) =>
             /\ calls'[c].pc = "done"
             /\ ~Did(calls'[c], "fetch")
             /\ lastPatch'.done
             /\ lastPatch'.html = stateCache[calls[c].href].html
             /\ HistoryWrittenFor(c, stateCache[calls[c].href].html)
             /\ UNCHANGED stateCache ]_vars

\* C13's case: a call for PageA, which no route matches, has fetched the
\* page, cached it and pushed an entry, and a later call for PageA has
\* returned after a patch without a fetch.
C13_Witness ==
  /\ config.cache
  /\ routes = <<>>
  /\ stateCache[PageA].has
  /\ \E c \in DOMAIN calls :
       /\ calls[c].href = PageA
       /\ calls[c].pc = "done"
       /\ Did(calls[c], "patch")
       /\ ~Did(calls[c], "fetch")

\* The first half of C13's case: the fetch, the cache write and the push.
C13_WitnessFetched ==
  /\ config.cache
  /\ stateCache[PageA].has
  /\ \E c \in DOMAIN calls :
       /\ calls[c].href = PageA
       /\ calls[c].route = 0
       /\ calls[c].pc = "done"
       /\ Did(calls[c], "fetch")
       /\ Did(calls[c], "push")

\* While calls do not overlap, the container carries the loading mark as
\* long as a call is in the pipeline of a matched route (267).
LoadingWhileInPipeline ==
  (\E c \in DOMAIN calls : calls[c].route # 0 /\ InFlight(calls[c]))
    => loading

\* C15: the loading mark that a call sets when it enters the pipeline of a
\* matched route is cleared on every way out of the pipeline: once the call
\* has returned, after a patch and a history write, after a failure of the
\* loader or of the renderer, or after a transport failure and the
\* hand-over to the browser, and no other call is under way, the container
\* is not marked loading.
C15_LoadingReleased ==
  (\A c \in DOMAIN calls : ~InFlight(calls[c])) => ~loading

\* C15's case: a call that a route matched has returned after a transport
\* failure and the hand-over to the browser.
C15_Witness ==
  \E c \in DOMAIN calls :
    /\ calls[c].route # 0
    /\ calls[c].pc = "done"
    /\ Did(calls[c], "fetchfail")
    /\ calls[c].hard
    /\ ~loading

\* Another case of C15: the loader of the matched route has failed.
C15_WitnessLoaderFailed ==
  \E c \in DOMAIN calls :
    /\ calls[c].route # 0
    /\ calls[c].pc = "done"
    /\ Did(calls[c], "loader")
    /\ ~Did(calls[c], "render")
    /\ calls[c].hard
    /\ ~loading

\* Another case of C15: the call has patched, written the history and run
\* the afterEach hooks.
C15_WitnessSuccess ==
  \E c \in DOMAIN calls :
    /\ calls[c].route # 0
    /\ calls[c].pc = "done"
    /\ Did(calls[c], "push")
    /\ Did(calls[c], "after")
    /\ ~loading

\* An afterEach hook of call c threw in the step.
AfterThrew(c) ==
  /\ Resumed(c)
  /\ calls[c].pc = "after"
  /\ Cardinality(Events(calls'[c], "threw"))
       > Cardinality(Events(calls[c], "threw"))

\* C17: when afterEach hook i of a call throws, the call invokes every
\* onError hook once, in order, and goes on: it invokes hook i + 1 if there
\* is one, and returns otherwise.  The call is not handed to the browser,
\* and the history entry it wrote, the container, the title and the caches
\* stay as they are.
C17_AfterHookFailureSkipped ==
  [][ \A c \in DOMAIN calls :
        AfterThrew(c) =>
          /\ calls'[c].ev =
               calls[c].ev \o <<<<"threw", calls[c].i>>>>
                 \o Invocations("error", hooks.onError)
                 \o (IF calls[c].i < hooks.afterEach
                     THEN <<<<"after", calls[c].i + 1>>>> ELSE <<>>)
          /\ calls'[c].pc = (IF calls[c].i < hooks.afterEach
                             THEN "after" ELSE "done")
          /\ ~calls'[c].hard
          /\ container' = Canon(container)
          /\ UNCHANGED <<hist, cur, title, stateCache, loaderCache>> ]_vars

\* C17's case: the first of two afterEach hooks threw after the call had
\* pushed its entry, two onError hooks are registered, and the second
\* afterEach hook has been invoked.
C17_Witness ==
  /\ hooks.afterEach = 2
  /\ hooks.onError = 2
  /\ \E c \in DOMAIN calls :
       /\ Did(calls[c], "push")
       /\ \E p \in Events(calls[c], "threw") :
            /\ calls[c].ev[p] = <<"threw", 1>>
            /\ p > SetMin(Events(calls[c], "push"))
       /\ \E p \in DOMAIN calls[c].ev : calls[c].ev[p] = <<"after", 2>>
       /\ calls[c].pc = "done"
       /\ ~calls[c].hard
       /\ hist[cur].url = calls[c].href

\* The beforeEach hook that call c was waiting for threw in the step: the
\* log of the call goes on with that event.
BeforeThrew(c) ==
  /\ calls[c].pc = "before"
  /\ c \in DOMAIN calls'
  /\ Len(calls'[c].ev) > Len(calls[c].ev)
  /\ SubSeq(calls'[c].ev, 1, Len(calls[c].ev) + 1)
       = calls[c].ev \o <<<<"threw", calls[c].i>>>>

\* C18: when beforeEach hook i of a call throws or rejects, the call
\* invokes every onError hook once, in order, and returns in that very step
\* having invoked the hooks 1..i and nothing else: no later beforeEach hook,
\* no loader, no transport, no patch and no history write; the step makes
\* no other call and leaves document, caches and history as they were.
C18_BeforeHookFailureAborts ==
  [][ \A c \in DOMAIN calls : BeforeThrew(c) =>
          /\ calls'[c].pc = "done"
          /\ calls'[c].ev = Invocations("before", calls[c].i)
                              \o <<<<"threw", calls[c].i>>>>
                              \o Invocations("error", hooks.onError)
          /\ ~calls'[c].hard
          /\ Len(calls') = Len(calls)
          /\ made' = made
          /\ NothingTouched ]_vars

\* C18's case: the first of two beforeEach hooks has thrown in a call for a
\* URL that a route matches, with two onError hooks registered.
C18_Witness ==
  /\ hooks.beforeEach = 2
  /\ hooks.onError = 2
  /\ routes # <<>>
  /\ \E c \in DOMAIN calls :
       /\ calls[c].href = PageA
       /\ calls[c].ev = <<<<"before", 1>>, <<"threw", 1>>,
                          <<"error", 1>>, <<"error", 2>>>>

(***************************************************************************)
(* Properties of form submissions and prefetches.  The log of a submission *)
(* lists what its handler has done, as the log of a call does.             *)
(***************************************************************************)
\* The transport failed for the submission: the request failed, or the
\* response came with a status that is not a success.
TransportFailed(task) == Did(task, "fetchfail") \/ Did(task, "notok")

\* C14: a submission of a non-GET form whose transport failed (a network
\* error, or a response whose status is not a success) has, when its handler
\* has ended, invoked every onError hook once, in order, and handed the
\* submission to the browser.
C14_FormFailureFallsBack ==
  \A t \in DOMAIN tasks :
    (/\ tasks[t].kind = "submit"
     /\ tasks[t].pc = "done"
     /\ TransportFailed(tasks[t])) =>
      /\ SelectSeq(tasks[t].ev, IsErrorEvent)
           = Invocations("error", hooks.onError)
      /\ Did(tasks[t], "hard")

\* What the code does for a request that failed: the error hooks, and
\* nothing else; the page stays as it is.
FormFailureReachesErrorHooks ==
  \A t \in DOMAIN tasks :
    (tasks[t].kind = "submit" /\ Did(tasks[t], "fetchfail")) =>
      /\ tasks[t].pc = "done"
      /\ tasks[t].ev = <<<<"fetch", 0>>, <<"fetchfail", 0>>>>
                         \o Invocations("error", hooks.onError)

\* The call went past the beforeEach hooks in the step, for a URL that a
\* route matches and for which the loader cache holds an entry.
WentOnWithData(c) ==
  /\ WentOn(c)
  /\ MatchRoute(routes, calls[c].href).matched
  /\ loaderCache[calls[c].href].has

\* The call took the cached value for its data and did not call the loader.
ReusedData(c) ==
  /\ ~Did(calls'[c], "loader")
  /\ calls'[c].data = loaderCache[calls[c].href].data
  /\ UNCHANGED loaderCache

\* C16: once the loader cache holds an entry for a URL, stored by an earlier
\* call or by a prefetch, a call for that URL takes the cached value and
\* does not invoke the loader of the route, whatever the value is.
C16_LoaderCacheReused == [][\A c \in DOMAIN calls : WentOnWithData(c) => ReusedData(c)]_vars

\* C16 for the cached values that are truthy.
TruthyLoaderDataReused ==
  [][ \A c \in DOMAIN calls :
        (WentOnWithData(c) /\ ~Falsy(loaderCache[calls[c].href].data)) =>
          ReusedData(c) ]_vars

(***************************************************************************)
(* Properties of overlapping calls.                                        *)
(***************************************************************************)
\* Call c patched the container in the step.
PatchedIn(c) ==
  /\ Resumed(c)
  /\ Did(calls'[c], "patch")
  /\ ~Did(calls[c], "patch")

\* C20: whatever the interleaving of the calls, the call that patches the
\* container last also writes the current history entry last.  A call that
\* patches writes the history in the same step, so that no other handler
\* runs between its patch and its history write: after the step the
\* container holds what the call patched in and the current entry is an
\* entry for the URL of the call; and a step in which no call patches leaves
\* the URL of the current entry as it was.
C20_LastPatchWins ==
  [][ /\ \A c \in DOMAIN calls :
           PatchedIn(c) =>
             /\ lastPatch'.done
             /\ hist'[cur'].url = calls[c].href
             /\ hist'[cur'].state.has
             /\ hist'[cur'].state.url = calls[c].href
             /\ Did(calls'[c], "push") \/ Did(calls'[c], "replace")
      /\ (\A c \in DOMAIN calls : ~PatchedIn(c)) =>
           hist'[cur'].url = hist[cur].url ]_vars

\* C20's case: two calls for different URLs overlapped and both patched and
\* pushed; the call made first patched last, and the current entry and the
\* container are its own.
C20_Witness ==
  /\ Len(calls) = 2
  /\ calls[1].href # calls[2].href
  /\ \A c \in {1, 2} :
       /\ Did(calls[c], "patch")
       /\ Did(calls[c], "push")
       /\ ~calls[c].hard
  /\ Len(hist) = 3
  /\ cur = 3
  /\ hist[2].url = calls[2].href
  /\ hist[3].url = calls[1].href
  /\ lastPatch.done
  /\ InnerHTML(container) = hist[3].state.html

(***************************************************************************)
(* Properties of the calls under fairness.                                 *)
(***************************************************************************)
\* No call of navigate is waiting for a hook, a loader, a renderer or the
\* transport: every call that was made has returned.
Quiet == \A c \in DOMAIN calls : ~InFlight(calls[c])

\* The step in which a beforeEach hook answers a replacement URL and
\* navigate calls itself with it.
Restart ==
  \E c \in DOMAIN calls :
    /\ calls[c].pc = "before"
    /\ calls[c].i > 0
    /\ \E to \in Urls : Commit(Restarted(World, c, to))

\* C21: when every hook, loader, renderer and transport call returns, every
\* call of navigate returns, the calls that a beforeEach hook restarts with
\* a replacement URL included: time and again no call is in flight.
C21_NavigateTerminates == []<>Quiet

\* C21 for the behaviours in which the hooks stop answering replacement
\* URLs: either navigate restarts itself for ever, or every call returns.
ReturnsUnlessRestartedForever == ([]<><<Restart>>_vars) \/ []<>Quiet

(***************************************************************************)
(* Properties of the clicks.                                               *)
(***************************************************************************)
\* How many times the handler or the call rec has invoked beforeEach hook j.
HookCalls(rec, j) ==
  Cardinality({p \in DOMAIN rec.ev : rec.ev[p] = <<"before", j>>})

\* Call c is the navigate call that the click handler t made for the link
\* that was clicked (120).
CallOfClick(t, c) ==
  /\ tasks[t].kind = "click"
  /\ ~Did(tasks[t], "redirect")
  /\ calls[c].via = "click"
  /\ calls[c].href = tasks[t].href

\* C22: for one click on a link, the click handler and the navigate call it
\* makes for the clicked target together invoke each beforeEach hook at most
\* once.
C22_ClickHooksOnce ==
  \A t \in DOMAIN tasks : \A c \in DOMAIN calls :
    CallOfClick(t, c) =>
      \A j \in 1..hooks.beforeEach :
        HookCalls(tasks[t], j) + HookCalls(calls[c], j) <= 1

\* C22 with the two runs of the hooks told apart: the handler invokes each
\* hook at most once, and so does the call it makes.
ClickHooksOncePerRun ==
  \A t \in DOMAIN tasks : \A c \in DOMAIN calls :
    CallOfClick(t, c) =>
      \A j \in 1..hooks.beforeEach :
        /\ HookCalls(tasks[t], j) <= 1
        /\ HookCalls(calls[c], j) <= 1

(***************************************************************************)
(* Properties of the content cache when the cache option is off.           *)
(***************************************************************************)
\* The call has patched the container with the page behind its URL, taken
\* from the content cache or fetched (297-317, 348-365): no renderer and no
\* template gave the content.
UsedPagePath(call) ==
  /\ Did(call, "patch")
  /\ ~Did(call, "render")
  /\ call.route # 0 => routes[call.route].options.template = <<>>

\* No URL has an entry in the content cache.
CacheEmpty == \A u \in AllUrls : ~stateCache[u].has

\* Every call that has patched the container with the page behind its URL
\* has fetched the page.
PagesFetched ==
  \A c \in DOMAIN calls : UsedPagePath(calls[c]) => Did(calls[c], "fetch")

\* C23: once init has run with the cache option off, the content cache has
\* no entry, whatever prefetches and navigate calls have run, and every
\* call that has patched the container with the page behind its URL has
\* fetched the page.
C23_DisabledCacheUnused ==
  (phase = "run" /\ ~config.cache) => (CacheEmpty /\ PagesFetched)

\* The second half of C23 alone: with the cache option off no call is
\* served from the content cache.
DisabledCacheNeverServes == (phase = "run" /\ ~config.cache) => PagesFetched

\* What holds of C23: with the cache option off, no step of a navigate call
\* writes the content cache (314, 361).
DisabledCacheNavigateNeverWrites ==
  [][ (~config.cache /\ \E c \in DOMAIN calls : Resumed(c)) =>
        UNCHANGED stateCache ]_vars

(***************************************************************************)
(* Properties of the loading mark under overlapping calls.                 *)
(***************************************************************************)
\* The call is between its entry into the pipeline of a matched route (267)
\* and its way out of it (340-342).
InPipeline(call) == call.route # 0 /\ InFlight(call)

\* C24: when calls overlap, the container carries the loading mark in every
\* state in which a call is in the pipeline of a matched route; the way out
\* of one call does not clear the mark while another call that a route
\* matched still waits for its loader, its renderer or the transport.
C24_LoadingWhileAnyInPipeline ==
  \A c \in DOMAIN calls : InPipeline(calls[c]) => loading

\* What holds of C24: the container carries the mark only while a call is
\* in the pipeline of a matched route.
LoadingOnlyInPipeline ==
  loading => \E c \in DOMAIN calls : InPipeline(calls[c])

====
